---------------------------- MODULE Spec2Model ----------------------------
(***************************************************************************)
(* A model of the retrieval / reasoning core of NexusRAG:                  *)
(*   - HybridRetriever over a BM25 keyword index and a vector store        *)
(*     (src/nexusrag/retrievers/hybrid.py, bm25.py),                       *)
(*   - CitationEngine (src/nexusrag/reasoning/citation.py),                *)
(*   - MultiStepReasoner (src/nexusrag/reasoning/multi_step.py),           *)
(*   - CrossModalRetriever (src/nexusrag/retrievers/cross_modal.py).       *)
(* Every component has its own variables, its own actions and its own      *)
(* specification; a component's actions leave the others' variables alone. *)
(***************************************************************************)
EXTENDS Integers, Sequences, FiniteSets, TLC

VARIABLES
    \* ---- HybridRetriever ----
    keyword_weight,   \* numerator of self.keyword_weight over WeightDen
    bm25,             \* self.bm25_retriever: the fields of the BM25 index
    vs_documents,     \* what vector_store.add has received, in order
    h_pc,             \* "idle" | "returned": hybrid_search has returned h_results
    h_call,           \* the inputs of the hybrid_search call that last ran
    h_combined,       \* combined_results after the sort, before the [:top_k] cut
    h_results,        \* the list hybrid_search returned
    \* ---- CitationEngine ----
    citations,          \* self.citations
    verification_cache, \* self.verification_cache: hexdigest -> verification result
    c_pc,               \* "idle" | "returned": an operation has returned c_result
    c_call,             \* the operation that last ran, with its arguments
    c_evidence,         \* verify_claim's local supporting_evidence before the
                        \* sort and the [:3] cut (<<>> when the cache answered)
    c_result,           \* what the operation returned
    c_first,            \* history: claim text -> what the first verify_claim of
                        \* that text returned since the engine was made or cleared
    \* ---- MultiStepReasoner ----
    reasoning_history,  \* self.reasoning_history
    r_pc,               \* "idle", the LLM call reason() waits at
                        \* ("initial_analysis" | "refinement" | "synthesis"),
                        \* or how it ended ("returned" | "raised")
    r_call,             \* the arguments of the reason() call
    r_session,          \* reason's local reasoning_session
    r_current,          \* reason's local current_state
    r_step,             \* reason's loop variable step
    r_llm,              \* history: the llm.generate calls of this reason() call,
                        \* each by the method that made it
    r_result,           \* what reason() returned or raised
    \* ---- BM25Retriever taken alone ----
    b_index,            \* the fields of the retriever
    b_pc,               \* "idle" | "returned": an operation has ended with b_result
    b_call,             \* the operation that last ran, with its arguments
    b_result,           \* what it returned or raised
    b_last,             \* history: the last search since the index last changed,
                        \* with the sums its arithmetic gave and what it returned
    \* ---- CrossModalRetriever ----
    x_store,            \* what vector_store.add has received, in order
    x_pc,               \* "idle" | "returned": an operation has returned x_result
    x_call,             \* the operation that last ran, with its arguments and
                        \* with what vector_store.query gave it
    x_result,           \* what the operation returned
    \* ---- MultiStepReasoner with several callers ----
    r_waiting,          \* the reason() calls of other callers that wait at an
                        \* LLM call, each with its locals
    \* ---- BGEReranker and LightweightReranker ----
    k_model,            \* BGEReranker.model: "none" | "loaded"
    k_pc,               \* "idle" | "returned" | "raised"
    k_call,             \* the rerank call that last ran, with its arguments
    k_result,           \* what it returned or raised
    \* ---- UniversalRetriever over the hybrid retriever's variables ----
    use_bge_reranker,   \* whether the re-ranker is the BGE one
    u_pc,               \* "idle" | "returned" | "raised"
    u_call,             \* the operation that last ran, with its arguments and
                        \* with the candidates of the hybrid search
    u_result,           \* what it returned or raised
    \* ---- ConstrainedGenerator ----
    g_pc,               \* "idle", "generate" (the call waits at llm.generate),
                        \* or how it ended ("returned" | "raised")
    g_call,             \* the operation that runs, with its arguments
    g_local,            \* its locals: the prompt, the loop variable attempt,
                        \* the last response and the last check
    g_llm,              \* history: the prompts llm.generate got in this call
    g_result            \* what the operation returned or raised

hybrid_vars == <<keyword_weight, bm25, vs_documents, h_pc, h_call,
                 h_combined, h_results>>

cite_vars == <<citations, verification_cache, c_pc, c_call, c_evidence,
               c_result, c_first>>

reason_vars == <<reasoning_history, r_pc, r_call, r_session, r_current, r_step,
                 r_llm, r_result>>

index_vars == <<b_index, b_pc, b_call, b_result, b_last>>

cross_vars == <<x_store, x_pc, x_call, x_result>>

rerank_vars == <<k_model, k_pc, k_call, k_result>>

universal_vars == <<use_bge_reranker, u_pc, u_call, u_result>>

generate_vars == <<g_pc, g_call, g_local, g_llm, g_result>>

\* the variables of the waiting callers, the re-rankers, the universal
\* retriever and the constrained generator
late_vars == <<r_waiting, rerank_vars, universal_vars, generate_vars>>

vars == <<hybrid_vars, cite_vars, reason_vars, index_vars, cross_vars, late_vars>>

\* what the actions of one component leave alone
not_hybrid_vars == <<cite_vars, reason_vars, index_vars, cross_vars, late_vars>>
not_cite_vars == <<hybrid_vars, reason_vars, index_vars, cross_vars, late_vars>>
not_reason_vars == <<hybrid_vars, cite_vars, index_vars, cross_vars, late_vars>>
not_index_vars == <<hybrid_vars, cite_vars, reason_vars, cross_vars, late_vars>>
not_cross_vars == <<hybrid_vars, cite_vars, reason_vars, index_vars, late_vars>>
early_vars == <<hybrid_vars, cite_vars, reason_vars, index_vars, cross_vars>>
not_rerank_vars == <<early_vars, r_waiting, universal_vars, generate_vars>>
not_universal_vars == <<cite_vars, reason_vars, index_vars, cross_vars,
                        r_waiting, generate_vars>>
not_generate_vars == <<early_vars, r_waiting, rerank_vars, universal_vars>>

-----------------------------------------------------------------------------
(* Generic helpers                                                         *)

Range(s) == {s[i] : i \in 1..Len(s)}

Min(a, b) == IF a <= b THEN a ELSE b

\* s[:k] of Python for k >= 0
Take(s, k) == SubSeq(s, 1, Min(k, Len(s)))

\* the element of a one-element set; TheOne({F(x) : x \in {e}}) is F(e) with
\* e computed once
TheOne(S) == CHOOSE x \in S : TRUE

\* max() of a non-empty sequence of integers
MaxOf(s) == CHOOSE m \in Range(s) : \A x \in Range(s) : x <= m

\* list.sort(key=..., reverse=True) / sorted(..., reverse=True), where key[i]
\* is the key of s[i]: a stable sort, so elements with equal keys keep their order.
SortDesc(s, key) ==
    LET n == Len(s)
        rank(i) == Cardinality({j \in 1..n : key[j] > key[i]})
                   + Cardinality({j \in 1..(i-1) : key[j] = key[i]})
                   + 1
    IN  [p \in 1..n |-> s[CHOOSE i \in 1..n : rank(i) = p]]

\* [s[i] for i in range(len(s)) if keep[i]]
Filter(s, keep) ==
    LET idx == {i \in 1..Len(s) : keep[i]}
        nth(p) == CHOOSE i \in idx : Cardinality({j \in idx : j < i}) = p - 1
    IN  [p \in 1..Cardinality(idx) |-> s[nth(p)]]

\* [result["score"] for result in results]
ScoresOf(results) == [i \in 1..Len(results) |-> results[i].score]

\* all sequences over S of length 0..n
SeqsUpTo(S, n) == UNION {[1..k -> S] : k \in 0..n}

-----------------------------------------------------------------------------
(* Text.  A string is a sequence of one-character strings; the operators   *)
(* below are the str methods and regular expressions the code applies,     *)
(* over ASCII letters, digits, the underscore and any other character.     *)

UpperChars == <<"A","B","C","D","E","F","G","H","I","J","K","L","M",
                "N","O","P","Q","R","S","T","U","V","W","X","Y","Z">>
LowerChars == <<"a","b","c","d","e","f","g","h","i","j","k","l","m",
                "n","o","p","q","r","s","t","u","v","w","x","y","z">>
DigitChars == <<"0","1","2","3","4","5","6","7","8","9">>

UpperSet == {"A","B","C","D","E","F","G","H","I","J","K","L","M",
             "N","O","P","Q","R","S","T","U","V","W","X","Y","Z"}
LowerSet == {"a","b","c","d","e","f","g","h","i","j","k","l","m",
             "n","o","p","q","r","s","t","u","v","w","x","y","z"}
DigitSet == {"0","1","2","3","4","5","6","7","8","9"}

IsUpper(ch) == ch \in UpperSet
IsLower(ch) == ch \in LowerSet
\* \w
IsWordChar(ch) == ch \in UpperSet \/ ch \in LowerSet \/ ch \in DigitSet \/ ch = "_"

LowerChar(ch) ==
    IF IsUpper(ch) THEN LowerChars[CHOOSE i \in 1..26 : UpperChars[i] = ch] ELSE ch

\* str.lower()
LowerText(text) == [i \in 1..Len(text) |-> LowerChar(text[i])]

\* a in b
IsSubstring(a, b) ==
    \E i \in 0..(Len(b) - Len(a)) : SubSeq(b, i + 1, i + Len(a)) = a

\* the least element of a set of positions
FirstIn(S) == CHOOSE x \in S : \A y \in S : x <= y

\* the maximal runs of word characters of s from position i on, in order
RECURSIVE WordRunsFrom(_, _)
WordRunsFrom(s, i) ==
    LET word == {j \in i..Len(s) : IsWordChar(s[j])}
    IN  IF word = {} THEN <<>>
        ELSE LET start == FirstIn(word)
                 rest == {j \in start..Len(s) : ~IsWordChar(s[j])}
                 end == IF rest = {} THEN Len(s) ELSE FirstIn(rest) - 1
             IN  <<SubSeq(s, start, end)>> \o WordRunsFrom(s, end + 1)

\* re.findall(r'\b\w+\b', s)
WordRuns(s) == WordRunsFrom(s, 1)

-----------------------------------------------------------------------------
(* Bounds and input sets of the hybrid retriever                           *)

MaxDocs == 5          \* documents in the index
MaxVecResults == 2    \* results the vector store returns for one query
WeightDen == 2        \* keyword_weight ranges over k / WeightDen, k in 0..WeightDen

TopKs == {0, 1, 2}            \* top_k of a search
VectorScores == {0, 1, 2}     \* non-negative scores of the vector store
KeywordScores == {-1, 0, 1, 2} \* values of a document's BM25 sum for a query

TextCat == <<"C","a","t",".">>
TextDogs == <<"d","o","g"," ","d","o","g">>
Contents == {TextCat, TextDogs}       \* Document.content strings

Queries == {<<"c","a","t">>, <<"D","o","g","!">>, <<"a"," ","d","o","g">>, <<"?">>}

\* the inputs of the BM25 index taken alone

MaxIndexDocs == 3     \* documents in the index

IndexTopKs == {0, 1, 2, 3}    \* top_k of a search

\* Document.content strings, the last one without a word
\* 'the cat sat'
TextCatSat == <<"t","h","e"," ","c","a","t"," ","s","a","t">>
\* 'the dog ran'
TextDogRan == <<"t","h","e"," ","d","o","g"," ","r","a","n">>
\* 'cats and dogs'
TextCatsDogs == <<"c","a","t","s"," ","a","n","d"," ","d","o","g","s">>
\* '?!'
TextMarks == <<"?","!">>
IndexContents == {TextCatSat, TextDogRan, TextCatsDogs, TextMarks}

\* queries, the last two without a word of the corpus and without any word
\* 'cat'
QueryCat == <<"c","a","t">>
\* 'Cat DOG'
QueryCatDog == <<"C","a","t"," ","D","O","G">>
\* 'emu'
QueryEmu == <<"e","m","u">>
\* '...'
QueryDots == <<".",".",".">>
IndexQueries == {QueryCat, QueryCatDog, QueryEmu, QueryDots}

-----------------------------------------------------------------------------
(* BM25Retriever                                                           *)

\* _tokenize, lines 122-124
Tokenize(text) == WordRuns(LowerText(text))

\* _tokenize of every content and query of the model, computed once
TokensOf ==
    [text \in Contents \cup Queries \cup IndexContents \cup IndexQueries |->
        Tokenize(text)]

\* __init__, lines 18-23.  avg_doc_length is the exact quotient num / den.
BM25Empty ==
    [documents |-> <<>>,
     avg_doc_length |-> [num |-> 0, den |-> 1],
     doc_count |-> 0,
     term_freqs |-> <<>>,     \* term -> doc_id -> frequency (empty mapping)
     doc_freqs |-> <<>>,      \* term -> document frequency (empty mapping)
     doc_lengths |-> <<>>]    \* doc_id -> length (empty mapping)

Occurrences(tokens, term) == Cardinality({i \in 1..Len(tokens) : tokens[i] = term})

\* m[k] = v for a mapping m (a function), with k new or not
MapSet(m, k, v) == [x \in DOMAIN m \cup {k} |-> IF x = k THEN v ELSE m[x]]

\* sum(m.values())
RECURSIVE SumValues(_)
SumValues(m) ==
    IF DOMAIN m = {} THEN 0
    ELSE LET k == CHOOSE x \in DOMAIN m : TRUE
         IN  m[k] + SumValues([x \in DOMAIN m \ {k} |-> m[x]])

\* lines 46-53 for the terms of one document
RECURSIVE AddTerms(_, _, _, _)
AddTerms(index, terms, tokens, doc_id) ==
    IF terms = {} THEN index
    ELSE LET term == CHOOSE t \in terms : TRUE
             old_tf == IF term \in DOMAIN index.term_freqs
                       THEN index.term_freqs[term] ELSE <<>>
             old_df == IF term \in DOMAIN index.doc_freqs
                       THEN index.doc_freqs[term] ELSE 0
             next == [index EXCEPT
                        !.term_freqs = MapSet(@, term,
                                          MapSet(old_tf, doc_id, Occurrences(tokens, term))),
                        !.doc_freqs = MapSet(@, term, old_df + 1)]
         IN  AddTerms(next, terms \ {term}, tokens, doc_id)

\* lines 32-53: one iteration of the loop over docs
AddOneDocument(index, content) ==
    LET doc_id == Len(index.documents)
        tokens == TokensOf[content]
        appended == [index EXCEPT !.documents = Append(@, content),
                                  !.doc_lengths = MapSet(@, doc_id, Len(tokens))]
    IN  AddTerms(appended, Range(tokens), tokens, doc_id)

RECURSIVE AddEach(_, _)
AddEach(index, docs) ==
    IF docs = <<>> THEN index ELSE AddEach(AddOneDocument(index, Head(docs)), Tail(docs))

\* add_documents with an average over the documents of this call only
BM25AddDocumentsBatchAverage(index, docs) ==
    LET added == AddEach(index, docs)
        counted == [added EXCEPT !.doc_count = Len(added.documents)]
        lengths == [i \in 1..Len(docs) |-> Len(TokensOf[docs[i]])]
    IN  IF docs # <<>>
        THEN [counted EXCEPT !.avg_doc_length =
                 [num |-> SumValues(lengths), den |-> Len(docs)]]
        ELSE counted

\* add_documents without lines 55-58: avg_doc_length stays as it was
BM25AddDocumentsNoAverage(index, docs) ==
    LET added == AddEach(index, docs)
    IN  [added EXCEPT !.doc_count = Len(added.documents)]

\* add_documents, lines 31-58
BM25AddDocuments(index, docs) ==
    LET added == AddEach(index, docs)
        counted == [added EXCEPT !.doc_count = Len(added.documents)]
    IN  IF DOMAIN counted.doc_lengths # {}
        THEN [counted EXCEPT !.avg_doc_length =
                 [num |-> SumValues(counted.doc_lengths),
                  den |-> Cardinality(DOMAIN counted.doc_lengths)]]
        ELSE counted

\* scoring terms of a match by prefix: a query term counts for doc_id when a
\* term of the document starts with it
ScoringTermsByPrefix(index, query_terms, doc_id) ==
    {t \in Range(query_terms) :
        \E u \in DOMAIN index.term_freqs :
            /\ doc_id \in DOMAIN index.term_freqs[u]
            /\ Len(t) <= Len(u)
            /\ SubSeq(u, 1, Len(t)) = t}

\* The query terms that add to the score of doc_id: line 81
ScoringTerms(index, query_terms, doc_id) ==
    {t \in Range(query_terms) :
        t \in DOMAIN index.term_freqs /\ doc_id \in DOMAIN index.term_freqs[t]}

\* The sign of idf = log((doc_count - doc_freq + 0.5) / (doc_freq + 0.5)), line 88:
\* the quotient is above 1 exactly when doc_count > 2 * doc_freq.
IdfSign(index, term) ==
    LET doc_freq == IF term \in DOMAIN index.doc_freqs THEN index.doc_freqs[term] ELSE 0
    IN  IF index.doc_count > 2 * doc_freq THEN 1
        ELSE IF index.doc_count = 2 * doc_freq THEN 0 ELSE -1

\* Lines 79-93 add idf * numerator / denominator per scoring term, where
\* numerator / denominator > 0.  The logarithm is not computed: score[d] stands
\* for the sum, and this is what the code's arithmetic fixes about it.
\*   - no scoring term: the sum stays 0.0;
\*   - every scoring term has idf > 0 (< 0, = 0): the sum is > 0 (< 0, = 0);
\*   - documents with the same content get the same sum: score maps a
\*     content to the sum of the documents that hold it.
ScoreAdmissible(index, query_terms, score) ==
    \A d \in 0..(Len(index.documents) - 1) :
        LET ts == ScoringTerms(index, query_terms, d)
            signs == {IdfSign(index, t) : t \in ts}
            sum == score[index.documents[d + 1]]
        IN  /\ signs \subseteq {0} => sum = 0
            /\ (signs # {} /\ signs \subseteq {0, 1} /\ 1 \in signs) => sum > 0
            /\ (signs # {} /\ signs \subseteq {0, -1} /\ -1 \in signs) => sum < 0

\* The score maps (content -> sum) search can compute for a query
BM25Scores(index, query) ==
    {score \in [Range(index.documents) -> KeywordScores] :
        ScoreAdmissible(index, TokensOf[query], score)}

\* sorted_docs of a sort that puts the later of two equal scores first
BM25SortedDocsLastFirst(index, score, top_k) ==
    LET n == Len(index.documents)
        scores == [i \in 1..n |->
                      [doc_id |-> n - i, score |-> score[index.documents[n - i + 1]]]]
    IN  Take(SortDesc(scores, ScoresOf(scores)), top_k)

\* search's local sorted_docs, line 96, given the scores of lines 77-93:
\* the (doc_id, score) pairs by falling score, the sort being stable
BM25SortedDocs(index, score, top_k) ==
    LET scores == [i \in 1..Len(index.documents) |->
                      [doc_id |-> i - 1, score |-> score[index.documents[i]]]]
    IN  Take(SortDesc(scores, ScoresOf(scores)), top_k)

\* lines 99-108: the results made of sorted_docs
BM25Results(index, sorted_docs) ==
    LET positive == Filter(sorted_docs,
                           [i \in 1..Len(sorted_docs) |-> sorted_docs[i].score > 0])
    IN  [i \in 1..Len(positive) |->
            [content |-> index.documents[positive[i].doc_id + 1],
             score |-> positive[i].score]]

\* search, lines 70-110, given the scores of lines 77-93
BM25Search(index, score, top_k) ==
    IF index.documents = <<>> THEN <<>>
    ELSE BM25Results(index, BM25SortedDocs(index, score, top_k))

\* What lines 88 and 90 raise for a term that scores: math.log of a quotient
\* that is not positive, the division by an avg_doc_length of 0.0
TermError(index, term) ==
    LET doc_freq == IF term \in DOMAIN index.doc_freqs THEN index.doc_freqs[term] ELSE 0
    IN  IF 2 * (index.doc_count - doc_freq) + 1 <= 0 THEN "ValueError"
        ELSE IF index.avg_doc_length.num = 0 THEN "ZeroDivisionError"
        ELSE "none"

\* What the loops of lines 78-93 raise: the error of the first document and
\* query term, in the order of the loops, whose arithmetic fails
SearchError(index, query_terms) ==
    LET failing == {h \in (0..(Len(index.documents) - 1)) \X (1..Len(query_terms)) :
                       /\ query_terms[h[2]] \in ScoringTerms(index, query_terms, h[1])
                       /\ TermError(index, query_terms[h[2]]) # "none"}
    IN  IF failing = {} THEN "none"
        ELSE LET first == CHOOSE h \in failing : \A g \in failing :
                              h[1] < g[1] \/ (h[1] = g[1] /\ h[2] <= g[2])
             IN  TermError(index, query_terms[first[2]])

-----------------------------------------------------------------------------
(* HybridRetriever._combine_results                                        *)
(* Scores are exact rationals.  Within one call vector_score is kept as a  *)
(* numerator over max_vector_score, keyword_score over max_keyword_score,  *)
(* and hybrid_score over HybridDen = WeightDen * max_vector * max_keyword. *)

\* lines 78-84: max(...) if scores else 1.0, and 0 replaced by 1.0
MaxScore(results) ==
    LET m == IF results = <<>> THEN 1 ELSE MaxOf(ScoresOf(results))
    IN  IF m = 0 THEN 1 ELSE m

HybridDen(maxv, maxk) == WeightDen * maxv * maxk

HasContent(result_map, c) == \E i \in 1..Len(result_map) : result_map[i].content = c

IndexOfContent(result_map, c) == CHOOSE i \in 1..Len(result_map) : result_map[i].content = c

\* (mutant of MapAssign: a list that is appended to, no key lookup)
MapAssignAppends(result_map, rec) == Append(result_map, rec)

\* result_map[content] = {...}: a dict keeps the position of a key it holds
MapAssign(result_map, rec) ==
    IF HasContent(result_map, rec.content)
    THEN [result_map EXCEPT ![IndexOfContent(result_map, rec.content)] = rec]
    ELSE Append(result_map, rec)

\* lines 90-101
RECURSIVE ProcessVector(_, _, _, _)
ProcessVector(result_map, vector_results, w, maxk) ==
    IF vector_results = <<>> THEN result_map
    ELSE LET result == Head(vector_results)
             rec == [content |-> result.content,
                     vector_score |-> result.score,
                     keyword_score |-> 0,
                     hybrid_score |-> (WeightDen - w) * result.score * maxk]
         IN  ProcessVector(MapAssign(result_map, rec), Tail(vector_results), w, maxk)

\* lines 109-112: update the entry that exists
UpdateExisting(result_map, content, normalized, keyword_score) ==
    LET i == IndexOfContent(result_map, content)
    IN  [result_map EXCEPT ![i].keyword_score = normalized,
                           ![i].hybrid_score = @ + keyword_score]

\* lines 104-121
RECURSIVE ProcessKeyword(_, _, _, _)
ProcessKeyword(result_map, keyword_results, w, maxv) ==
    IF keyword_results = <<>> THEN result_map
    ELSE LET result == Head(keyword_results)
             keyword_score == w * result.score * maxv
             next == IF HasContent(result_map, result.content)
                     THEN UpdateExisting(result_map, result.content, result.score,
                                         keyword_score)
                     ELSE Append(result_map,
                                 [content |-> result.content,
                                  vector_score |-> 0,
                                  keyword_score |-> result.score,
                                  hybrid_score |-> keyword_score])
         IN  ProcessKeyword(next, Tail(keyword_results), w, maxv)

\* lines 69-125: the combined list, sorted, before the cut to top_k
CombineSorted(vector_results, keyword_results, w) ==
    IF vector_results = <<>> /\ keyword_results = <<>> THEN <<>>
    ELSE LET maxv == MaxScore(vector_results)
             maxk == MaxScore(keyword_results)
             m1 == ProcessVector(<<>>, vector_results, w, maxk)
             m2 == ProcessKeyword(m1, keyword_results, w, maxv)
         IN  SortDesc(m2, [i \in 1..Len(m2) |-> m2[i].hybrid_score])

\* line 128
CombineResults(vector_results, keyword_results, top_k, w) ==
    Take(CombineSorted(vector_results, keyword_results, w), top_k)

-----------------------------------------------------------------------------
(* HybridRetriever: state machine                                          *)

NoCall == [top_k |-> 0, vector_results |-> <<>>, keyword_results |-> <<>>]

HybridInit ==
    /\ keyword_weight \in 0..WeightDen
    /\ bm25 = BM25Empty
    /\ vs_documents = <<>>
    /\ h_pc = "idle"
    /\ h_call = NoCall
    /\ h_combined = <<>>
    /\ h_results = <<>>

\* add_documents(docs): vector_store.add(docs), then bm25_retriever.add_documents(docs)
HybridAddDocuments ==
    /\ h_pc = "idle"
    /\ \E docs \in SeqsUpTo(Contents, 2) :
        /\ Len(bm25.documents) + Len(docs) <= MaxDocs
        /\ vs_documents' = vs_documents \o docs
        /\ bm25' = BM25AddDocuments(bm25, docs)
    /\ UNCHANGED <<keyword_weight, h_pc, h_call, h_combined, h_results, not_hybrid_vars>>

CountOf(s, x) == Cardinality({i \in 1..Len(s) : s[i] = x})

\* What vector_store.query(query, n) may return: at most n results, each the
\* content of a stored document (no more often than it is stored) with a
\* non-negative score, in any order.
VectorQueryResults(n) ==
    {r \in SeqsUpTo([content : Range(vs_documents), score : VectorScores],
                    Min(n, MaxVecResults)) :
        \A c \in Range(vs_documents) :
            CountOf([i \in 1..Len(r) |-> r[i].content], c) <= CountOf(vs_documents, c)}

\* What bm25_retriever.search(query, n) may return, over every query
KeywordSearchResults(n) ==
    {BM25Search(bm25, score, n) :
        score \in UNION {BM25Scores(bm25, query) : query \in Queries}}

\* hybrid_search(query, top_k), lines 44-53
HybridSearch ==
    /\ h_pc = "idle"
    /\ \E top_k \in TopKs :
       \E keyword_results \in KeywordSearchResults(top_k * 2) :
       \E vector_results \in VectorQueryResults(top_k * 2) :
          /\ h_call' = [top_k |-> top_k, vector_results |-> vector_results,
                        keyword_results |-> keyword_results]
          /\ h_combined' = CombineSorted(vector_results, keyword_results,
                                         keyword_weight)
          /\ h_results' = CombineResults(vector_results, keyword_results, top_k,
                                         keyword_weight)
    /\ h_pc' = "returned"
    /\ UNCHANGED <<keyword_weight, bm25, vs_documents, not_hybrid_vars>>

\* the caller takes the list; the retriever keeps nothing of the search
HybridReturn ==
    /\ h_pc = "returned"
    /\ h_pc' = "idle"
    /\ h_call' = NoCall
    /\ h_combined' = <<>>
    /\ h_results' = <<>>
    /\ UNCHANGED <<keyword_weight, bm25, vs_documents, not_hybrid_vars>>

HybridNext == HybridAddDocuments \/ HybridSearch \/ HybridReturn

-----------------------------------------------------------------------------
(* HybridRetriever: properties                                             *)

CallMaxV == MaxScore(h_call.vector_results)
CallMaxK == MaxScore(h_call.keyword_results)

HasDuplicate(results) ==
    \E i, j \in 1..Len(results) : i # j /\ results[i].content = results[j].content

\* C1: every entry of a list returned by hybrid_search has
\* 0.0 <= hybrid_score <= 1.0, whatever the index and the vector results hold
\* (repeated content strings included), for keyword_weight in [0,1].
C1_HybridScoreInUnitInterval ==
    h_pc = "returned" =>
        \A i \in 1..Len(h_results) :
            /\ 0 <= h_results[i].hybrid_score
            /\ h_results[i].hybrid_score <= HybridDen(CallMaxV, CallMaxK)

\* the scores a source returned for content c; 0.0 when it did not return c
SourceScores(results, c) ==
    IF \E i \in 1..Len(results) : results[i].content = c
    THEN {results[i].score : i \in {j \in 1..Len(results) : results[j].content = c}}
    ELSE {0}

\* C2: before the cut to top_k the combined list holds exactly one entry for
\* every content string either source returned, and its hybrid_score is
\* (1-w) * vector score / max vector score + w * keyword score / max keyword score.
C2_OneEntryWithWeightedSum ==
    h_pc = "returned" =>
        \A c \in {r.content : r \in Range(h_call.vector_results)
                                     \cup Range(h_call.keyword_results)} :
            /\ Cardinality({i \in 1..Len(h_combined) : h_combined[i].content = c}) = 1
            /\ \A i \in 1..Len(h_combined) :
                  h_combined[i].content = c =>
                     \E v \in SourceScores(h_call.vector_results, c) :
                     \E k \in SourceScores(h_call.keyword_results, c) :
                        h_combined[i].hybrid_score =
                            (WeightDen - keyword_weight) * v * CallMaxK
                            + keyword_weight * k * CallMaxV

\* C3: a list returned by hybrid_search holds no content string twice, is in
\* non-increasing hybrid_score order and has at most top_k entries.
C3_DistinctSortedTopK ==
    h_pc = "returned" =>
        /\ ~HasDuplicate(h_results)
        /\ \A i \in 1..(Len(h_results) - 1) :
              h_results[i].hybrid_score >= h_results[i+1].hybrid_score
        /\ Len(h_results) <= h_call.top_k

\* C3 witness: both sources returned a content string twice, and the returned
\* list has two entries with different scores.
C3_Witness ==
    /\ h_pc = "returned"
    /\ HasDuplicate(h_call.vector_results)
    /\ HasDuplicate(h_call.keyword_results)
    /\ Len(h_results) = 2
    /\ h_results[1].hybrid_score > h_results[2].hybrid_score
    /\ Len(h_combined) = 2

-----------------------------------------------------------------------------
(* CitationEngine: the regular expressions of _extract_entities and        *)
(* _extract_claims                                                          *)

\* the quotes of text from position i on
QuotesFrom(text, i) == {j \in i..Len(text) : text[j] = "\""}

\* re.findall(r'"([^"]+)"', text) from position i on: a quote, one or more
\* characters that are not quotes, a quote; the search resumes after a match,
\* and at the next quote when the first one opens nothing
RECURSIVE QuotedPhrases(_, _)
QuotedPhrases(text, i) ==
    IF QuotesFrom(text, i) = {} THEN <<>>
    ELSE LET open == FirstIn(QuotesFrom(text, i))
             closing == QuotesFrom(text, open + 1)
             close == FirstIn(closing)
         IN  IF closing # {} /\ close >= open + 2
             THEN <<SubSeq(text, open + 1, close - 1)>>
                      \o QuotedPhrases(text, close + 1)
             ELSE QuotedPhrases(text, open + 1)

\* re.findall(r'\b[A-Z][a-z]+\b', text): both \b force the match to be a whole
\* run of word characters, an upper-case letter and then lower-case letters
CapitalizedWords(text) ==
    LET runs == WordRuns(text)
    IN  Filter(runs, [i \in 1..Len(runs) |->
                         /\ Len(runs[i]) >= 2
                         /\ IsUpper(runs[i][1])
                         /\ \A k \in 2..Len(runs[i]) : IsLower(runs[i][k])])

\* _extract_entities(text): list(set(quoted + capitalized)); its order is
\* never read, so the value is the set
ExtractEntities(text) == Range(QuotedPhrases(text, 1)) \cup Range(CapitalizedWords(text))

IsTerminator(ch) == ch \in {".", "!", "?"}

\* the pieces of text from position i on, a piece starting at i
RECURSIVE SplitFrom(_, _)
SplitFrom(text, i) ==
    LET terminators == {j \in i..Len(text) : IsTerminator(text[j])}
    IN  IF terminators = {} THEN <<SubSeq(text, i, Len(text))>>
        ELSE LET t == FirstIn(terminators)
                 after == {j \in t..Len(text) : ~IsTerminator(text[j])}
                 next == IF after = {} THEN Len(text) + 1 ELSE FirstIn(after)
             IN  <<SubSeq(text, i, t - 1)>> \o SplitFrom(text, next)

\* re.split(r'[.!?]+', text): the pieces between the maximal runs of
\* terminators, an empty piece before a leading and after a trailing run
SplitSentences(text) == SplitFrom(text, 1)

Whitespace == {" ", "\t", "\n", "\r"}

\* str.strip()
Strip(s) ==
    LET idx == {i \in 1..Len(s) : s[i] \notin Whitespace}
    IN  IF idx = {} THEN <<>>
        ELSE SubSeq(s, FirstIn(idx), CHOOSE a \in idx : \A b \in idx : a >= b)

ClaimVerbs ==
    {<<"i","s">>, <<"a","r","e">>, <<"w","a","s">>, <<"w","e","r","e">>,
     <<"h","a","s">>, <<"h","a","v","e">>, <<"h","a","d">>, <<"w","i","l","l">>,
     <<"w","o","u","l","d">>, <<"c","o","u","l","d">>, <<"s","h","o","u","l","d">>}

\* re.search(r'\b(is|are|...|should)\b', sentence, re.IGNORECASE): the verbs are
\* word characters only, so a match between two \b is a whole run
HasClaimVerb(sentence) ==
    \E w \in Range(WordRuns(sentence)) : LowerText(w) \in ClaimVerbs

\* _extract_claims(text)
ExtractClaims(text) ==
    LET pieces == SplitSentences(text)
        sentences == [i \in 1..Len(pieces) |-> Strip(pieces[i])]
    IN  Filter(sentences, [i \in 1..Len(sentences) |->
                              sentences[i] # <<>> /\ HasClaimVerb(sentences[i])])

-----------------------------------------------------------------------------
(* hashlib.md5 (RFC 1321), the key of the verification cache and the       *)
(* source of the ids.  A 32-bit word is <<hi, lo>>, two 16-bit halves.     *)

RECURSIVE Pow2(_)
Pow2(n) == IF n = 0 THEN 1 ELSE 2 * Pow2(n - 1)

\* bitwise and / or / xor of two n-bit numbers
RECURSIVE BitOp(_, _, _, _)
BitOp(op, a, b, n) ==
    IF n = 0 THEN 0
    ELSE LET x == a % 2
             y == b % 2
             bit == CASE op = "and" -> x * y
                      [] op = "or" -> IF x + y > 0 THEN 1 ELSE 0
                      [] OTHER -> (x + y) % 2
         IN  bit + 2 * BitOp(op, a \div 2, b \div 2, n - 1)

WordOp(op, a, b) == <<BitOp(op, a[1], b[1], 16), BitOp(op, a[2], b[2], 16)>>

WordNot(a) == <<65535 - a[1], 65535 - a[2]>>

\* addition modulo 2^32
WordAdd(a, b) ==
    LET lo == a[2] + b[2]
    IN  <<(a[1] + b[1] + (lo \div 65536)) % 65536, lo % 65536>>

\* rotation to the left by s bits, 0 < s < 32
RotateLeft(a, s) ==
    LET w == IF s >= 16 THEN <<a[2], a[1]>> ELSE a
        r == s % 16
    IN  IF r = 0 THEN w
        ELSE <<(w[1] % Pow2(16 - r)) * Pow2(r) + (w[2] \div Pow2(16 - r)),
               (w[2] % Pow2(16 - r)) * Pow2(r) + (w[1] \div Pow2(16 - r))>>

\* floor(2^32 * abs(sin(i + 1))), i = 0..63
Md5K == <<
    <<55146, 42104>>, <<59591, 46934>>, <<9248, 28891>>, <<49597, 52974>>,
    <<62844, 4015>>, <<18311, 50730>>, <<43056, 17939>>, <<64838, 38145>>,
    <<27008, 39128>>, <<35652, 63407>>, <<65535, 23473>>, <<35164, 55230>>,
    <<27536, 4386>>, <<64920, 29075>>, <<42617, 17294>>, <<18868, 2081>>,
    <<63006, 9570>>, <<49216, 45888>>, <<9822, 23121>>, <<59830, 51114>>,
    <<54831, 4189>>, <<580, 5203>>, <<55457, 59009>>, <<59347, 64456>>,
    <<8673, 52710>>, <<49975, 2006>>, <<62677, 3463>>, <<17754, 5357>>,
    <<43491, 59653>>, <<64751, 41976>>, <<26479, 729>>, <<36138, 19594>>,
    <<65530, 14658>>, <<34673, 63105>>, <<28061, 24866>>, <<64997, 14348>>,
    <<42174, 59972>>, <<19422, 53161>>, <<63163, 19296>>, <<48831, 48240>>,
    <<10395, 32454>>, <<60065, 10234>>, <<54511, 12421>>, <<1160, 7429>>,
    <<55764, 53305>>, <<59099, 39397>>, <<8098, 31992>>, <<50348, 22117>>,
    <<62505, 8772>>, <<17194, 65431>>, <<43924, 9127>>, <<64659, 41017>>,
    <<25947, 22979>>, <<36620, 52370>>, <<65519, 62589>>, <<34180, 24017>>,
    <<28584, 32335>>, <<65068, 59104>>, <<41729, 17172>>, <<19976, 4513>>,
    <<63315, 32386>>, <<48442, 62005>>, <<10967, 53947>>, <<60294, 54161>> >>

\* the per-round shift amounts
Md5S == <<
    7, 12, 17, 22, 7, 12, 17, 22, 7, 12, 17, 22, 7, 12, 17, 22,
    5, 9, 14, 20, 5, 9, 14, 20, 5, 9, 14, 20, 5, 9, 14, 20,
    4, 11, 16, 23, 4, 11, 16, 23, 4, 11, 16, 23, 4, 11, 16, 23,
    6, 10, 15, 21, 6, 10, 15, 21, 6, 10, 15, 21, 6, 10, 15, 21 >>

Md5InitState == <<<<26437, 8961>>, <<61389, 43913>>, <<39098, 56574>>, <<4146, 21622>>>>

\* the code point of a character (str.encode of ASCII text)
Ord(ch) ==
    IF IsUpper(ch) THEN 64 + (CHOOSE i \in 1..26 : UpperChars[i] = ch)
    ELSE IF IsLower(ch) THEN 96 + (CHOOSE i \in 1..26 : LowerChars[i] = ch)
    ELSE IF ch \in DigitSet THEN 47 + (CHOOSE i \in 1..10 : DigitChars[i] = ch)
    ELSE CASE ch = " " -> 32 [] ch = "!" -> 33 [] ch = "\"" -> 34 [] ch = "." -> 46
           [] ch = "?" -> 63 [] ch = "_" -> 95

Encode(text) == [i \in 1..Len(text) |-> Ord(text[i])]

Zeros(n) == [i \in 1..n |-> 0]

\* the message, the byte 0x80, zeros up to 56 modulo 64, and the length in bits
\* as 8 little-endian bytes (texts here are shorter than 8192 bytes)
Md5Pad(bytes) ==
    LET n == Len(bytes)
        z == (55 - n) % 64
        bits == 8 * n
    IN  bytes \o <<128>> \o Zeros(z) \o <<bits % 256, bits \div 256>> \o Zeros(6)

\* word g (0..15) of the block that starts after byte number off
BlockWord(padded, off, g) ==
    <<padded[off + (4 * g) + 3] + 256 * padded[off + (4 * g) + 4],
      padded[off + (4 * g) + 1] + 256 * padded[off + (4 * g) + 2]>>

\* one of the 64 operations on the state <<A, B, C, D>>
Md5Step(st, i, padded, off) ==
    LET A == st[1]
        B == st[2]
        C == st[3]
        D == st[4]
        F == CASE i < 16 -> WordOp("or", WordOp("and", B, C), WordOp("and", WordNot(B), D))
               [] i >= 16 /\ i < 32 ->
                      WordOp("or", WordOp("and", D, B), WordOp("and", WordNot(D), C))
               [] i >= 32 /\ i < 48 -> WordOp("xor", B, WordOp("xor", C, D))
               [] OTHER -> WordOp("xor", C, WordOp("or", B, WordNot(D)))
        g == CASE i < 16 -> i
               [] i >= 16 /\ i < 32 -> ((5 * i) + 1) % 16
               [] i >= 32 /\ i < 48 -> ((3 * i) + 5) % 16
               [] OTHER -> (7 * i) % 16
        sum == WordAdd(WordAdd(F, A), WordAdd(Md5K[i + 1], BlockWord(padded, off, g)))
    IN  <<D, WordAdd(B, RotateLeft(sum, Md5S[i + 1])), B, C>>

\* the states <<A, B, C, D>> of a block: before the first operation, after it, ...
RECURSIVE Md5Rounds(_, _, _)
Md5Rounds(states, padded, off) ==
    IF Len(states) = 65 THEN states
    ELSE Md5Rounds(Append(states, Md5Step(states[Len(states)], Len(states) - 1, padded, off)),
                   padded, off)

\* a0 += A, b0 += B, c0 += C, d0 += D
Md5Sum(st, r) ==
    <<WordAdd(st[1], r[1]), WordAdd(st[2], r[2]), WordAdd(st[3], r[3]), WordAdd(st[4], r[4])>>

\* the state after the block of 64 bytes that starts after byte number off
Md5Block(st, padded, off) == Md5Sum(st, Md5Rounds(<<st>>, padded, off)[65])

\* the state after the first n blocks
RECURSIVE Md5Blocks(_, _)
Md5Blocks(padded, n) ==
    IF n = 0 THEN Md5InitState
    ELSE Md5Block(Md5Blocks(padded, n - 1), padded, 64 * (n - 1))

HexChars == <<"0","1","2","3","4","5","6","7","8","9","a","b","c","d","e","f">>

HexByte(b) == <<HexChars[(b \div 16) + 1], HexChars[(b % 16) + 1]>>

\* the four bytes of a word, least significant first, in hexadecimal
HexWord(a) ==
    HexByte(a[2] % 256) \o HexByte(a[2] \div 256) \o HexByte(a[1] % 256)
        \o HexByte(a[1] \div 256)

\* hashlib.md5(text.encode()).hexdigest()
Md5Hex(text) ==
    LET padded == Md5Pad(Encode(text))
        st == Md5Blocks(padded, Len(padded) \div 64)
    IN  HexWord(st[1]) \o HexWord(st[2]) \o HexWord(st[3]) \o HexWord(st[4])

-----------------------------------------------------------------------------
(* CitationEngine: bounds and input sets                                   *)

MaxContext == 3       \* documents in the context of a call on an empty cache
MaxCiteContext == 1   \* documents in the context of a call on a cache in use
MaxCitations == 1     \* entries of self.citations

\* claims whose matches differ in kind and in score
\* 'Al is in Rome'
ClaimAlRome == <<"A","l"," ","i","s"," ","i","n"," ","R","o","m","e">>
\* 'it IS wet'
ClaimWet == <<"i","t"," ","I","S"," ","w","e","t">>
\* 'Al met "big Bo" in Rome'
ClaimBigBo ==
    <<"A","l"," ","m","e","t"," ","\"","b","i","g"," ","B","o","\""," ","i",
      "n"," ","R","o","m","e">>
\* two texts with one MD5 digest, faad49866e9498fc1719f5289e7a0269
\* 'TEXTCOLLBYfGiJUETHQ4hAcKSMd5zYpgqf1YRDhkmxHkhPWptrkoyz28wnI9V0aHeAuaKnak'
ClaimCollA ==
    <<"T","E","X","T","C","O","L","L","B","Y","f","G","i","J","U","E","T","H",
      "Q","4","h","A","c","K","S","M","d","5","z","Y","p","g","q","f","1","Y",
      "R","D","h","k","m","x","H","k","h","P","W","p","t","r","k","o","y","z",
      "2","8","w","n","I","9","V","0","a","H","e","A","u","a","K","n","a",
      "k">>
\* 'TEXTCOLLBYfGiJUETHQ4hEcKSMd5zYpgqf1YRDhkmxHkhPWptrkoyz28wnI9V0aHeAuaKnak'
ClaimCollB ==
    <<"T","E","X","T","C","O","L","L","B","Y","f","G","i","J","U","E","T","H",
      "Q","4","h","E","c","K","S","M","d","5","z","Y","p","g","q","f","1","Y",
      "R","D","h","k","m","x","H","k","h","P","W","p","t","r","k","o","y","z",
      "2","8","w","n","I","9","V","0","a","H","e","A","u","a","K","n","a",
      "k">>

\* contents of context documents
\* 'AL IS IN ROME.'
TextDirect == <<"A","L"," ","I","S"," ","I","N"," ","R","O","M","E",".">>
\* 'Rome was hot'
TextRome == <<"R","o","m","e"," ","w","a","s"," ","h","o","t">>
\* 'so also is Rome'
TextAlso == <<"s","o"," ","a","l","s","o"," ","i","s"," ","R","o","m","e">>
\* 'al and big bo'
TextBigBo == <<"a","l"," ","a","n","d"," ","b","i","g"," ","b","o">>
\* 'al met "big bo" in rome!'
TextQuote ==
    <<"a","l"," ","m","e","t"," ","\"","b","i","g"," ","b","o","\""," ","i",
      "n"," ","r","o","m","e","!">>
\* 'It is WET'
TextWet == <<"I","t"," ","i","s"," ","W","E","T">>
\* 'web'
TextWeb == <<"w","e","b">>

\* responses
\* 'Al is in Rome. Go now! it IS wet?'
RespTwo ==
    <<"A","l"," ","i","s"," ","i","n"," ","R","o","m","e","."," ","G","o"," ",
      "n","o","w","!"," ","i","t"," ","I","S"," ","w","e","t","?">>
\* 'No claim here...'
RespNone ==
    <<"N","o"," ","c","l","a","i","m"," ","h","e","r","e",".",".",".">>
\* ' This island.it IS wet !? it IS wet'
RespSame ==
    <<" ","T","h","i","s"," ","i","s","l","a","n","d",".","i","t"," ","I","S",
      " ","w","e","t"," ","!","?"," ","i","t"," ","I","S"," ","w","e","t">>

\* 'cite_'
TextCite == <<"c","i","t","e","_">>

MatchClaims == {ClaimAlRome, ClaimWet, ClaimBigBo}
MatchDocs ==
    {[content |-> TextDirect], [content |-> TextRome], [content |-> TextAlso],
     [content |-> TextBigBo], [content |-> TextQuote], [content |-> TextWet],
     [source |-> TextWeb]}

CacheClaims == {ClaimAlRome, ClaimCollA, ClaimCollB}
CacheDocs == {[content |-> TextDirect], [content |-> ClaimCollA], [content |-> TextWet]}
Responses == {RespTwo, RespNone, RespSame, <<>>}

\* doc.get("content", "")
DocContent(doc) == IF "content" \in DOMAIN doc THEN doc.content ELSE <<>>

\* hashlib.md5(text.encode()).hexdigest() of every text the engine hashes:
\* the values of Md5Hex, written out
Md5Digest ==
    ClaimAlRome :>
        <<"c","6","a","7","8","c","4","e","b","e","8","3","3","b","5","5",
          "3","6","5","4","f","f","c","7","6","2","6","5","d","e","1","8">> @@
    ClaimWet :>
        <<"c","0","a","a","8","8","d","a","4","9","f","9","0","9","8","7",
          "c","b","6","b","e","8","7","5","e","1","1","2","c","f","1","3">> @@
    ClaimBigBo :>
        <<"f","e","f","9","7","6","2","4","5","0","e","8","e","b","0","7",
          "7","3","8","3","0","4","f","4","5","2","3","b","9","d","9","d">> @@
    ClaimCollA :>
        <<"f","a","a","d","4","9","8","6","6","e","9","4","9","8","f","c",
          "1","7","1","9","f","5","2","8","9","e","7","a","0","2","6","9">> @@
    ClaimCollB :>
        <<"f","a","a","d","4","9","8","6","6","e","9","4","9","8","f","c",
          "1","7","1","9","f","5","2","8","9","e","7","a","0","2","6","9">> @@
    TextDirect :>
        <<"6","4","e","7","c","9","7","d","e","a","1","4","c","c","5","9",
          "5","9","c","d","b","c","d","d","5","4","3","b","a","2","8","e">> @@
    TextRome :>
        <<"a","9","b","0","f","4","8","f","1","0","6","c","8","c","f","d",
          "5","b","3","0","8","0","f","e","d","5","1","5","0","c","7","0">> @@
    TextAlso :>
        <<"f","c","6","c","e","b","9","1","2","7","5","1","8","5","a","b",
          "8","1","4","b","5","9","3","b","c","5","6","9","a","6","e","c">> @@
    TextBigBo :>
        <<"0","c","3","6","0","b","e","0","e","5","9","8","4","f","1","3",
          "d","4","a","2","e","5","3","4","c","8","6","c","b","3","3","3">> @@
    TextQuote :>
        <<"4","e","0","c","1","e","7","f","7","d","2","c","b","a","b","b",
          "1","7","4","b","a","0","f","2","9","3","b","d","9","3","3","c">> @@
    TextWet :>
        <<"f","4","b","1","6","e","5","7","6","2","d","a","4","2","e","7",
          "b","7","3","8","8","6","5","2","7","d","8","9","e","e","b","e">> @@
    <<>> :>
        <<"d","4","1","d","8","c","d","9","8","f","0","0","b","2","0","4",
          "e","9","8","0","0","9","9","8","e","c","f","8","4","2","7","e">>

Md5DigestIsMd5 == \A text \in DOMAIN Md5Digest : Md5Digest[text] = Md5Hex(text)

\* hashlib.md5(claim.encode()).hexdigest()
ClaimHash(claim) == Md5Digest[claim]

\* _get_doc_id(doc)
DocId(doc) == Take(Md5Digest[DocContent(doc)], 12)

-----------------------------------------------------------------------------
(* CitationEngine.verify_claim and generate_citations.  A float is the     *)
(* fraction [num, den] it stands for; the timestamp of a result is left    *)
(* out, nothing reads it.                                                  *)

Rat(n, d) == [num |-> n, den |-> d]

RatLess(a, b) == a.num * b.den < b.num * a.den

\* min(a, b) of Python: b only when b < a
RatMin(a, b) == IF RatLess(b, a) THEN b ELSE a

\* entity_matches of one document, lines 77-80
EntityMatches(entities, doc_content) ==
    Cardinality({e \in entities : IsSubstring(LowerText(e), doc_content)})

EvidenceRecord(doc, score, type) ==
    [document_id |-> DocId(doc), content |-> DocContent(doc), score |-> score,
     type |-> type]

\* the direct-match check of one document, lines 68-74
DirectEvidence(claim, doc) ==
    IF IsSubstring(LowerText(claim), LowerText(DocContent(doc)))
    THEN <<EvidenceRecord(doc, Rat(1, 1), "direct_match")>>
    ELSE <<>>

\* the entity check of one document, lines 77-90
EntityEvidence(entities, doc) ==
    LET entity_matches == EntityMatches(entities, LowerText(DocContent(doc)))
        score == IF entities # {} THEN Rat(entity_matches, Cardinality(entities))
                 ELSE Rat(0, 1)
    IN  IF entity_matches > 0 /\ RatLess(Rat(1, 2), score)
        THEN <<EvidenceRecord(doc, score, "entity_match")>>
        ELSE <<>>

\* what one pass of the loop over the context appends: the two checks are two
\* separate if statements
DocEvidence(claim, entities, doc) ==
    DirectEvidence(claim, doc) \o EntityEvidence(entities, doc)

\* supporting_evidence after the loop, lines 63-90
RECURSIVE SupportingEvidence(_, _, _)
SupportingEvidence(claim, entities, context) ==
    IF context = <<>> THEN <<>>
    ELSE DocEvidence(claim, entities, Head(context))
             \o SupportingEvidence(claim, entities, Tail(context))

\* the scores of one claim are 1/1 or m/len(entities): the largest
\* denominator is a common one, and the keys are the numerators over it
ScoreKeys(evidence) ==
    LET den == MaxOf([i \in 1..Len(evidence) |-> evidence[i].score.den])
    IN  [i \in 1..Len(evidence) |->
            evidence[i].score.num * (den \div evidence[i].score.den)]

\* the list left as the loop built it
UnsortedEvidence(evidence) == evidence

\* supporting_evidence.sort(key=lambda x: x["score"], reverse=True)
SortedEvidence(evidence) == SortDesc(evidence, ScoreKeys(evidence))

\* verification_result, lines 93-112
VerificationResult(claim, evidence) ==
    IF evidence # <<>>
    THEN [claim |-> claim,
          verified |-> TRUE,
          confidence |-> RatMin(Rat(1, 1), Rat(Len(evidence), 3)),
          supporting_evidence |-> Take(SortedEvidence(evidence), 3),
          contradicting_evidence |-> <<>>]
    ELSE [claim |-> claim,
          verified |-> FALSE,
          confidence |-> Rat(0, 1),
          supporting_evidence |-> <<>>,
          contradicting_evidence |-> <<>>]

\* verify_claim(claim, context) on a cache: the cache after the call, the
\* result, the evidence list the call built, and whether the cache answered
VerifyClaim(cache, claim, context) ==
    LET claim_hash == ClaimHash(claim)
        evidence == SupportingEvidence(claim, ExtractEntities(claim), context)
        verification_result == VerificationResult(claim, evidence)
    IN  IF claim_hash \in DOMAIN cache
        THEN [cache |-> cache, result |-> cache[claim_hash], evidence |-> <<>>,
              cached |-> TRUE]
        ELSE [cache |-> MapSet(cache, claim_hash, verification_result),
              result |-> verification_result, evidence |-> evidence,
              cached |-> FALSE]

\* the loop of generate_citations, lines 133-139: the cache and the list
\* verified_claims after the claims from position i on
RECURSIVE VerifyEach(_, _, _, _, _)
VerifyEach(cache, claims, i, context, verified_claims) ==
    IF i > Len(claims) THEN [cache |-> cache, verified_claims |-> verified_claims]
    ELSE LET out == VerifyClaim(cache, claims[i], context)
         IN  VerifyEach(out.cache, claims, i + 1, context,
                        Append(verified_claims,
                               [claim |-> claims[i], verification |-> out.result]))

\* a / b of Python
Divide(a, b) == IF b = 0 THEN [raised |-> "ZeroDivisionError"] ELSE Rat(a, b)

\* the division without the test of claims
CitationRateUnguarded(claims, verified) == Divide(verified, Len(claims))

\* len([...verified...]) / len(claims) if claims else 0.0
CitationRate(claims, verified) ==
    IF claims # <<>> THEN Divide(verified, Len(claims)) ELSE Rat(0, 1)

\* citation_report, lines 142-149
CitationReport(response, claims, verified_claims) ==
    LET verified == Cardinality({i \in 1..Len(verified_claims) :
                                    verified_claims[i].verification.verified})
    IN  [response |-> response,
         claims |-> verified_claims,
         total_claims |-> Len(claims),
         verified_claims |-> verified,
         citation_rate |-> CitationRate(claims, verified)]

-----------------------------------------------------------------------------
(* CitationEngine: state machine                                           *)

NoCiteCall == [op |-> "none", text |-> <<>>, context |-> <<>>, cached |-> FALSE]

CiteInit ==
    /\ Md5DigestIsMd5
    /\ citations = <<>>
    /\ verification_cache = <<>>
    /\ c_pc = "idle"
    /\ c_call = NoCiteCall
    /\ c_evidence = <<>>
    /\ c_result = <<>>
    /\ c_first = <<>>

\* history: the first result returned for a claim text
NoteFirst(first, claim, result) ==
    IF claim \in DOMAIN first THEN first ELSE MapSet(first, claim, result)

RECURSIVE NoteEach(_, _, _)
NoteEach(first, verified_claims, i) ==
    IF i > Len(verified_claims) THEN first
    ELSE NoteEach(NoteFirst(first, verified_claims[i].claim,
                            verified_claims[i].verification),
                  verified_claims, i + 1)

\* add_citation(content, source), lines 15-39
CiteAddCitation ==
    /\ c_pc = "idle"
    /\ Len(citations) < MaxCitations
    /\ \E content \in {TextWet}, source \in {TextWeb} :
          LET citation_id == TextCite \o Take(Md5Digest[content], 8)
          IN  /\ citations' = Append(citations,
                                     [id |-> citation_id, content |-> content,
                                      source |-> source, metadata |-> <<>>])
              /\ c_call' = [op |-> "add_citation", text |-> content,
                            context |-> <<>>, cached |-> FALSE]
              /\ c_result' = citation_id
    /\ c_pc' = "returned"
    /\ UNCHANGED <<verification_cache, c_evidence, c_first, not_cite_vars>>

\* verify_claim(claim, context), lines 41-117
CiteVerifyClaim(claim, context) ==
    /\ c_pc = "idle"
    /\ LET out == VerifyClaim(verification_cache, claim, context)
       IN  /\ verification_cache' = out.cache
           /\ c_evidence' = out.evidence
           /\ c_result' = out.result
           /\ c_call' = [op |-> "verify_claim", text |-> claim,
                         context |-> context, cached |-> out.cached]
           /\ c_first' = NoteFirst(c_first, claim, out.result)
    /\ c_pc' = "returned"
    /\ UNCHANGED <<citations, not_cite_vars>>

\* generate_citations(response, context), lines 119-151
CiteGenerateCitations(response, context) ==
    /\ c_pc = "idle"
    /\ LET claims == ExtractClaims(response)
           out == VerifyEach(verification_cache, claims, 1, context, <<>>)
       IN  /\ verification_cache' = out.cache
           /\ c_result' = CitationReport(response, claims, out.verified_claims)
           /\ c_first' = NoteEach(c_first, out.verified_claims, 1)
    /\ c_evidence' = <<>>
    /\ c_call' = [op |-> "generate_citations", text |-> response,
                  context |-> context, cached |-> FALSE]
    /\ c_pc' = "returned"
    /\ UNCHANGED <<citations, not_cite_vars>>

\* clear_citations(), lines 233-236
CiteClearCitations ==
    /\ c_pc = "idle"
    /\ citations' = <<>>
    /\ verification_cache' = <<>>
    /\ c_first' = <<>>
    /\ UNCHANGED <<c_pc, c_call, c_evidence, c_result, not_cite_vars>>

\* the caller takes what the operation returned
CiteReturn ==
    /\ c_pc = "returned"
    /\ c_pc' = "idle"
    /\ c_call' = NoCiteCall
    /\ c_evidence' = <<>>
    /\ c_result' = <<>>
    /\ UNCHANGED <<citations, verification_cache, c_first, not_cite_vars>>

\* calls on an engine that keeps its cache between them
CacheVerifyClaim ==
    \E claim \in CacheClaims, context \in SeqsUpTo(CacheDocs, MaxCiteContext) :
        CiteVerifyClaim(claim, context)

CacheGenerateCitations ==
    \E response \in Responses, context \in SeqsUpTo(CacheDocs, MaxCiteContext) :
        CiteGenerateCitations(response, context)

CiteNext ==
    \/ CiteAddCitation
    \/ CacheVerifyClaim
    \/ CacheGenerateCitations
    \/ CiteClearCitations
    \/ CiteReturn

\* a verification on an engine whose cache is empty: it is new or was cleared
FreshVerifyClaim ==
    /\ verification_cache = <<>>
    /\ \E claim \in MatchClaims, context \in SeqsUpTo(MatchDocs, MaxContext) :
          CiteVerifyClaim(claim, context)

FreshNext == FreshVerifyClaim \/ CiteClearCitations \/ CiteReturn

-----------------------------------------------------------------------------
(* CitationEngine: properties                                              *)

\* the lowercased claim is a substring of the lowercased content of doc
YieldsDirectMatch(claim, doc) ==
    IsSubstring(LowerText(claim), LowerText(DocContent(doc)))

\* the entities of the claim that occur, lowercased, in the lowercased content
EntitiesFound(claim, doc) ==
    {e \in ExtractEntities(claim) :
        IsSubstring(LowerText(e), LowerText(DocContent(doc)))}

\* more than half of the entities of the claim occur in doc
YieldsEntityMatch(claim, doc) ==
    2 * Cardinality(EntitiesFound(claim, doc)) > Cardinality(ExtractEntities(claim))

ContextMatches(claim, context) ==
    \E i \in 1..Len(context) :
        YieldsDirectMatch(claim, context[i]) \/ YieldsEntityMatch(claim, context[i])

VerifyReturned == c_pc = "returned" /\ c_call.op = "verify_claim"

GenerateReturned == c_pc = "returned" /\ c_call.op = "generate_citations"

\* C4: whenever verify_claim returns, directly or for a claim of
\* generate_citations, its verified flag is true if and only if a document of
\* the context passed to that call yields a direct or an entity match.
C4_VerifiedIffContextMatches ==
    /\ VerifyReturned =>
           (c_result.verified <=> ContextMatches(c_call.text, c_call.context))
    /\ GenerateReturned =>
           \A k \in 1..Len(c_result.claims) :
               c_result.claims[k].verification.verified
                   <=> ContextMatches(c_result.claims[k].claim, c_call.context)

\* what verify_claim computes from the claim and the context alone
ComputedAfresh(claim, context) ==
    VerificationResult(claim, SupportingEvidence(claim, ExtractEntities(claim), context))

\* C5: a verify_claim of a claim text that was verified before, since the
\* engine was made or last cleared, returns what the first of those calls
\* returned, whatever its context; a verify_claim of any other text is computed
\* from its own context; and no two texts verified so far share a cache key.
C5_CachedUntilCleared ==
    [][(c_pc = "idle" /\ c_pc' = "returned" /\ c_call'.op = "verify_claim") =>
          /\ IF c_call'.text \in DOMAIN c_first
             THEN c_result' = c_first[c_call'.text]
             ELSE c_result' = ComputedAfresh(c_call'.text, c_call'.context)
          /\ \A a, b \in DOMAIN c_first' : a # b => ClaimHash(a) # ClaimHash(b)]_vars

\* the records of an evidence list that carry the content of doc
RecordsOf(evidence, doc) ==
    {i \in 1..Len(evidence) : evidence[i].content = DocContent(doc)}

\* the documents of a context with the content of doc
CopiesOf(context, doc) ==
    {i \in 1..Len(context) : DocContent(context[i]) = DocContent(doc)}

\* C6: in a verify_claim that did not answer from the cache every context
\* document contributes at most one record: a direct_match of score 1.0 when
\* the claim is in the document, otherwise an entity_match with the matched
\* fraction when more than half of the entities are in it, otherwise none.
C6_OneRecordPerDocument ==
    (VerifyReturned /\ ~c_call.cached) =>
        \A i \in 1..Len(c_call.context) :
            LET doc == c_call.context[i]
                recs == RecordsOf(c_evidence, doc)
                found == Cardinality(EntitiesFound(c_call.text, doc))
                total == Cardinality(ExtractEntities(c_call.text))
            IN  IF YieldsDirectMatch(c_call.text, doc)
                THEN /\ Cardinality(recs) = Cardinality(CopiesOf(c_call.context, doc))
                     /\ \A r \in recs :
                            /\ c_evidence[r].type = "direct_match"
                            /\ c_evidence[r].score.num = c_evidence[r].score.den
                ELSE IF YieldsEntityMatch(c_call.text, doc)
                THEN /\ Cardinality(recs) = Cardinality(CopiesOf(c_call.context, doc))
                     /\ \A r \in recs :
                            /\ c_evidence[r].type = "entity_match"
                            /\ c_evidence[r].score.num * total
                                   = found * c_evidence[r].score.den
                ELSE recs = {}


\* a.score >= b.score
ScoreAtLeast(a, b) == a.score.num * b.score.den >= b.score.num * a.score.den

\* the entries of an evidence list that score at least as much as record r
AtLeast(evidence, r) == {i \in 1..Len(evidence) : ScoreAtLeast(evidence[i], r)}

\* the entries of an evidence list that equal record r
EqualTo(evidence, r) == {i \in 1..Len(evidence) : evidence[i] = r}

\* C7: a verify_claim that did not answer from the cache and found n matches:
\* for n >= 1 the confidence is min(1, n/3) and supporting_evidence holds the
\* min(n, 3) best-scoring matches, best first; for n = 0 verified is false,
\* the confidence is 0 and supporting_evidence is empty.
C7_ConfidenceAndTopThree ==
    (VerifyReturned /\ ~c_call.cached) =>
        LET n == Len(c_evidence)
            kept == c_result.supporting_evidence
        IN  IF n >= 1
            THEN /\ c_result.confidence.num * 3 = Min(n, 3) * c_result.confidence.den
                 /\ Len(kept) = Min(n, 3)
                 /\ \A i \in 1..(Len(kept) - 1) : ScoreAtLeast(kept[i], kept[i + 1])
                 /\ \A i \in 1..Len(kept) :
                        Cardinality(EqualTo(kept, kept[i]))
                            <= Cardinality(EqualTo(c_evidence, kept[i]))
                 /\ \A i \in 1..n :
                        Cardinality(AtLeast(kept, c_evidence[i]))
                            = Min(3, Cardinality(AtLeast(c_evidence, c_evidence[i])))
            ELSE /\ c_result.verified = FALSE
                 /\ c_result.confidence.num = 0
                 /\ kept = <<>>

\* more than three matches, found in an order that is not the order of the
\* scores, the cut dropping a match that scores less than every kept one
C7_Witness ==
    /\ VerifyReturned /\ ~c_call.cached
    /\ Len(c_evidence) > 3
    /\ \E i \in 1..(Len(c_evidence) - 1) : ~ScoreAtLeast(c_evidence[i], c_evidence[i + 1])
    /\ \E i \in 1..Len(c_evidence) :
           \A k \in 1..Len(c_result.supporting_evidence) :
               ~ScoreAtLeast(c_evidence[i], c_result.supporting_evidence[k])

\* a maximal piece a..b of the response without a terminator
IsSentence(response, a, b) ==
    /\ \A k \in a..b : ~IsTerminator(response[k])
    /\ a = 1 \/ IsTerminator(response[a - 1])
    /\ b = Len(response) \/ IsTerminator(response[b + 1])

\* one of the verbs, in any case, stands in a..b between characters that are
\* not word characters
HasVerbBetween(response, a, b) ==
    \E i \in a..b : \E j \in i..Min(b, i + 5) :
        /\ LowerText(SubSeq(response, i, j)) \in ClaimVerbs
        /\ i = a \/ ~IsWordChar(response[i - 1])
        /\ j = b \/ ~IsWordChar(response[j + 1])

\* the sentences of the response that hold a verb
ClaimSentences(response) ==
    {<<a, b>> \in (1..Len(response)) \X (1..Len(response)) :
        a <= b /\ IsSentence(response, a, b) /\ HasVerbBetween(response, a, b)}

\* C8: generate_citations reports as total_claims the number of sentences of
\* the response that hold a verb, verified_claims <= total_claims, and as
\* citation_rate the quotient of the two, within [0, 1]; without a claim the
\* rate is 0.0 and nothing is divided by zero.
C8_CitationRate ==
    GenerateReturned =>
        LET total == c_result.total_claims
            verified == c_result.verified_claims
            rate == c_result.citation_rate
        IN  /\ total = Cardinality(ClaimSentences(c_call.text))
            /\ total = Len(c_result.claims)
            /\ verified = Cardinality({k \in 1..total :
                                          c_result.claims[k].verification.verified})
            /\ verified <= total
            /\ "raised" \notin DOMAIN rate
            /\ IF total = 0 THEN rate.num = 0 /\ rate.den = 1
               ELSE /\ rate.num * total = verified * rate.den
                    /\ rate.den > 0 /\ 0 <= rate.num /\ rate.num <= rate.den

\* two claims, one of them verified
C8_Witness ==
    /\ GenerateReturned
    /\ c_result.total_claims = 2
    /\ c_result.verified_claims = 1

-----------------------------------------------------------------------------
(* json.  A value of Python is a record with one field that names its      *)
(* type: [str |-> text], [int |-> n], [float |-> fraction], [bool |-> b],  *)
(* [none |-> TRUE], [list |-> <<values>>] or [dict |-> <<<<key, value>>>>] *)
(* with the keys in insertion order.  json.loads is restated for the JSON  *)
(* texts without string escapes, fractions and exponents.                  *)

PyStr(text) == [str |-> text]
PyInt(n) == [int |-> n]
PyFloat(n, d) == [float |-> Rat(n, d)]
PyList(items) == [list |-> items]
PyDict(pairs) == [dict |-> pairs]

IsDict(value) == "dict" \in DOMAIN value

\* d[key] = value
DictSet(pairs, key, value) ==
    IF \E i \in 1..Len(pairs) : pairs[i][1] = key
    THEN [i \in 1..Len(pairs) |->
             IF pairs[i][1] = key THEN <<key, value>> ELSE pairs[i]]
    ELSE Append(pairs, <<key, value>>)

\* d.get(key, default)
DictGet(value, key, default) ==
    LET pairs == value.dict
        at == {i \in 1..Len(pairs) : pairs[i][1] = key}
    IN  IF at = {} THEN default ELSE pairs[FirstIn(at)][2]

\* the first position from i on that holds no white space
SkipSpace(text, i) ==
    LET rest == {j \in i..Len(text) : text[j] \notin Whitespace}
    IN  IF rest = {} THEN Len(text) + 1 ELSE FirstIn(rest)

CharAt(text, i) == IF i \in 1..Len(text) THEN text[i] ELSE ""

ParseFailed == [ok |-> FALSE]
Parsed(value, next) == [ok |-> TRUE, value |-> value, next |-> next]

\* "..." from the quote at i
ParseString(text, i) ==
    LET close == {j \in (i + 1)..Len(text) : text[j] = "\""}
    IN  IF close = {} THEN ParseFailed
        ELSE LET j == FirstIn(close)
                 body == SubSeq(text, i + 1, j - 1)
             IN  IF Range(body) \cap {"\\", "\n", "\t", "\r"} # {}
                 THEN ParseFailed
                 ELSE Parsed(PyStr(body), j + 1)

DigitValue(ch) == (CHOOSE k \in 1..10 : DigitChars[k] = ch) - 1

RECURSIVE DigitsValue(_)
DigitsValue(digits) ==
    IF digits = <<>> THEN 0
    ELSE 10 * DigitsValue(SubSeq(digits, 1, Len(digits) - 1))
         + DigitValue(digits[Len(digits)])

\* an integer from the digit at i: 0, or a run that starts with 1-9
ParseDigits(text, i) ==
    LET stop == {j \in i..Len(text) : text[j] \notin DigitSet}
        end == IF stop = {} THEN Len(text) + 1 ELSE FirstIn(stop)
    IN  IF CharAt(text, i) \notin DigitSet THEN ParseFailed
        ELSE IF text[i] = "0" THEN Parsed(PyInt(0), i + 1)
        ELSE Parsed(PyInt(DigitsValue(SubSeq(text, i, end - 1))), end)

ParseNumber(text, i) ==
    IF CharAt(text, i) = "-"
    THEN LET r == ParseDigits(text, i + 1)
         IN  IF r.ok THEN Parsed(PyInt(0 - r.value.int), r.next) ELSE ParseFailed
    ELSE ParseDigits(text, i)

LiteralTrue == <<"t","r","u","e">>
LiteralFalse == <<"f","a","l","s","e">>
LiteralNull == <<"n","u","l","l">>

StartsAt(text, i, word) ==
    /\ i + Len(word) - 1 <= Len(text)
    /\ SubSeq(text, i, i + Len(word) - 1) = word

RECURSIVE ParseValue(_, _), ParseItems(_, _, _), ParseMembers(_, _, _)

\* one value from position i, white space before it skipped
ParseValue(text, i) ==
    LET j == SkipSpace(text, i)
        ch == CharAt(text, j)
    IN  CASE ch = "\"" -> ParseString(text, j)
          [] ch = "-" \/ ch \in DigitSet -> ParseNumber(text, j)
          [] ch = "[" ->
                IF CharAt(text, SkipSpace(text, j + 1)) = "]"
                THEN Parsed(PyList(<<>>), SkipSpace(text, j + 1) + 1)
                ELSE ParseItems(text, j + 1, <<>>)
          [] ch = "{" ->
                IF CharAt(text, SkipSpace(text, j + 1)) = "}"
                THEN Parsed(PyDict(<<>>), SkipSpace(text, j + 1) + 1)
                ELSE ParseMembers(text, j + 1, <<>>)
          [] StartsAt(text, j, LiteralTrue) -> Parsed([bool |-> TRUE], j + 4)
          [] StartsAt(text, j, LiteralFalse) -> Parsed([bool |-> FALSE], j + 5)
          [] StartsAt(text, j, LiteralNull) -> Parsed([none |-> TRUE], j + 4)
          [] OTHER -> ParseFailed

\* the items of an array from position i, items holding those before it
ParseItems(text, i, items) ==
    LET r == ParseValue(text, i)
    IN  IF ~r.ok THEN ParseFailed
        ELSE LET k == SkipSpace(text, r.next)
                 now == Append(items, r.value)
             IN  CASE CharAt(text, k) = "," -> ParseItems(text, k + 1, now)
                   [] CharAt(text, k) = "]" -> Parsed(PyList(now), k + 1)
                   [] OTHER -> ParseFailed

\* the members of an object from position i, pairs holding those before it
ParseMembers(text, i, pairs) ==
    LET j == SkipSpace(text, i)
        key == IF CharAt(text, j) = "\"" THEN ParseString(text, j) ELSE ParseFailed
    IN  IF ~key.ok THEN ParseFailed
        ELSE LET c == SkipSpace(text, key.next)
                 r == IF CharAt(text, c) = ":" THEN ParseValue(text, c + 1)
                      ELSE ParseFailed
             IN  IF ~r.ok THEN ParseFailed
                 ELSE LET k == SkipSpace(text, r.next)
                          now == DictSet(pairs, key.value.str, r.value)
                      IN  CASE CharAt(text, k) = "," -> ParseMembers(text, k + 1, now)
                            [] CharAt(text, k) = "}" -> Parsed(PyDict(now), k + 1)
                            [] OTHER -> ParseFailed

\* json.loads(text): the value, or the JSONDecodeError it raises
JsonLoads(text) ==
    LET r == ParseValue(text, 1)
    IN  IF r.ok /\ SkipSpace(text, r.next) = Len(text) + 1
        THEN [value |-> r.value]
        ELSE [raised |-> "JSONDecodeError"]

\* the decimal digits of n >= 0
RECURSIVE NatText(_)
NatText(n) ==
    IF n < 10 THEN <<DigitChars[n + 1]>>
    ELSE Append(NatText(n \div 10), DigitChars[(n % 10) + 1])

IntText(n) == IF n < 0 THEN <<"-">> \o NatText(0 - n) ELSE NatText(n)

\* the text of a string between quotes, " and \ escaped
RECURSIVE EscapeFrom(_, _)
EscapeFrom(text, i) ==
    LET special == {j \in i..Len(text) : text[j] \in {"\"", "\\"}}
    IN  IF special = {} THEN SubSeq(text, i, Len(text))
        ELSE LET j == FirstIn(special)
             IN  SubSeq(text, i, j - 1) \o <<"\\", text[j]>> \o EscapeFrom(text, j + 1)

Quoted(text) == <<"\"">> \o EscapeFrom(text, 1) \o <<"\"">>

Indent(level) == [i \in 1..(2 * level) |-> " "]

RECURSIVE Dumps(_, _), DumpItems(_, _, _), DumpPairs(_, _, _)

\* the text of a value that starts at nesting depth level
Dumps(value, level) ==
    CASE "str" \in DOMAIN value -> Quoted(value.str)
      [] "int" \in DOMAIN value -> IntText(value.int)
      [] "bool" \in DOMAIN value -> IF value.bool THEN LiteralTrue ELSE LiteralFalse
      [] "none" \in DOMAIN value -> LiteralNull
      [] "list" \in DOMAIN value ->
            IF value.list = <<>> THEN <<"[", "]">>
            ELSE <<"[", "\n">> \o DumpItems(value.list, 1, level + 1)
                 \o Indent(level) \o <<"]">>
      [] "dict" \in DOMAIN value ->
            IF value.dict = <<>> THEN <<"{", "}">>
            ELSE <<"{", "\n">> \o DumpPairs(value.dict, 1, level + 1)
                 \o Indent(level) \o <<"}">>

\* one line per item from the i-th on, a comma between two items
DumpItems(items, i, level) ==
    Indent(level) \o Dumps(items[i], level)
    \o (IF i < Len(items) THEN <<",", "\n">> \o DumpItems(items, i + 1, level)
        ELSE <<"\n">>)

\* one line per key from the i-th on
DumpPairs(pairs, i, level) ==
    Indent(level) \o Quoted(pairs[i][1]) \o <<":", " ">> \o Dumps(pairs[i][2], level)
    \o (IF i < Len(pairs) THEN <<",", "\n">> \o DumpPairs(pairs, i + 1, level)
        ELSE <<"\n">>)

\* json.dumps(value, indent=2)
JsonDumps(value) == Dumps(value, 0)

-----------------------------------------------------------------------------
(* MultiStepReasoner: bounds, constants and input sets                     *)

\* the largest max_steps a caller passes
MaxSteps == 3

\* the sessions a history holds before the caller clears it
MaxSessions == 2

\* context[:5] and content[:200] of _format_context
MaxShownDocs == 5
MaxShownChars == 200

\* 'why'
QueryWhy == <<"w","h","y">>

\* what the LLM returns for an analysis or a refinement
\* '{"approach": "go"}'
RespPlan ==
    <<"{","\"","a","p","p","r","o","a","c","h","\"",":"," ","\"","g","o","\"",
      "}">>
\* '{"approach": "go"'
RespCut ==
    <<"{","\"","a","p","p","r","o","a","c","h","\"",":"," ","\"","g","o",
      "\"">>
\* 'It is Complete'
RespComplete == <<"I","t"," ","i","s"," ","C","o","m","p","l","e","t","e">>
\* '{"insights": ["adequate"]}'
RespAdequate ==
    <<"{","\"","i","n","s","i","g","h","t","s","\"",":"," ","[","\"","a","d",
      "e","q","u","a","t","e","\"","]","}">>
\* '"Sufficient"'
RespSufficient == <<"\"","S","u","f","f","i","c","i","e","n","t","\"">>

\* what it returns for a synthesis
\* '{"answer": "ok", "confidence": 1}'
RespAnswer ==
    <<"{","\"","a","n","s","w","e","r","\"",":"," ","\"","o","k","\"",","," ",
      "\"","c","o","n","f","i","d","e","n","c","e","\"",":"," ","1","}">>
\* '{"confidence": 2}'
RespSure ==
    <<"{","\"","c","o","n","f","i","d","e","n","c","e","\"",":"," ","2","}">>

\* the keys of the dictionaries the code reads and writes
KeyEntities == <<"e","n","t","i","t","i","e","s">>
KeyRelevantContext ==
    <<"r","e","l","e","v","a","n","t","_","c","o","n","t","e","x","t">>
KeyApproach == <<"a","p","p","r","o","a","c","h">>
KeyChallenges == <<"c","h","a","l","l","e","n","g","e","s">>
KeyInsights == <<"i","n","s","i","g","h","t","s">>
KeyAnswer == <<"a","n","s","w","e","r">>
KeyConfidence == <<"c","o","n","f","i","d","e","n","c","e">>
KeyEvidence == <<"e","v","i","d","e","n","c","e">>
KeyLimitations == <<"l","i","m","i","t","a","t","i","o","n","s">>

\* the words _should_stop_early looks for
WordSufficient == <<"s","u","f","f","i","c","i","e","n","t">>
WordAdequate == <<"a","d","e","q","u","a","t","e">>
WordComplete == <<"c","o","m","p","l","e","t","e">>

\* the fixed texts of _format_context and _synthesize_answer
\* 'Document '
TextDocument == <<"D","o","c","u","m","e","n","t"," ">>
\* ' (Score: '
TextScoreOpen == <<" ","(","S","c","o","r","e",":"," ">>
\* '):\n'
TextScoreClose == <<")",":","\n">>
\* '...'
TextEllipsis == <<".",".",".">>
\* 'Unable to parse structured response'
TextUnparsed ==
    <<"U","n","a","b","l","e"," ","t","o"," ","p","a","r","s","e"," ","s","t",
      "r","u","c","t","u","r","e","d"," ","r","e","s","p","o","n","s","e">>
\* f'{0.0:.2f}', the score shown for a document that carries none
TextNoScore == <<"0",".","0","0">>

StepResponses == {RespPlan, RespCut, RespComplete, RespAdequate, RespSufficient}
SynthesisResponses == {RespAnswer, RespSure, RespCut, RespSufficient}

\* the context a caller passes, or the answer of vector_store.query when the
\* caller passes none; the documents carry no score
ReasonContexts == {<<>>, <<[content |-> TextWet]>>}

-----------------------------------------------------------------------------
(* MultiStepReasoner.  A prompt is the record of what the code puts into   *)
(* its fixed text; a step record and a session keep the keys of the code.  *)

\* _format_context(context)
RECURSIVE FormatDocs(_, _)
FormatDocs(docs, i) ==
    IF i > Len(docs) THEN <<>>
    ELSE LET content == DocContent(docs[i])
             shown == IF Len(content) > MaxShownChars
                      THEN Take(content, MaxShownChars) \o TextEllipsis
                      ELSE content
         IN  TextDocument \o NatText(i) \o TextScoreOpen \o TextNoScore
             \o TextScoreClose \o shown \o <<"\n", "\n">> \o FormatDocs(docs, i + 1)

FormatContext(context) == Strip(FormatDocs(Take(context, MaxShownDocs), 1))

\* the prompt of _initial_analysis
InitialPrompt(query, context) ==
    [template |-> "initial_analysis", query |-> query,
     context |-> FormatContext(context)]

\* previous_state.get('analysis', {})
PreviousAnalysis(previous_state) ==
    IF "analysis" \in DOMAIN previous_state THEN previous_state.analysis
    ELSE PyDict(<<>>)

\* the prompt of _refinement_step
RefinementPrompt(query, context, previous_state) ==
    [template |-> "refinement", query |-> query,
     previous_analysis |-> JsonDumps(PreviousAnalysis(previous_state)),
     context |-> FormatContext(context)]

\* an except branch that drops the response
LoadsOrEmpty(response, fallback) ==
    LET loaded == JsonLoads(response)
    IN  IF "raised" \in DOMAIN loaded THEN PyDict(<<>>) ELSE loaded.value

\* json.loads(response), or the dictionary of the except branch
LoadsOr(response, fallback) ==
    LET loaded == JsonLoads(response)
    IN  IF "raised" \in DOMAIN loaded THEN fallback ELSE loaded.value

\* _initial_analysis(query, context), the LLM answering response
InitialAnalysis(query, context, response) ==
    [step |-> 0, type |-> "initial_analysis",
     analysis |-> LoadsOr(response,
                     PyDict(<< <<KeyEntities, PyList(<<>>)>>,
                               <<KeyRelevantContext, PyList(<<>>)>>,
                               <<KeyApproach, PyStr(response)>>,
                               <<KeyChallenges, PyList(<<>>)>> >>)),
     prompt |-> InitialPrompt(query, context),
     response |-> response]

\* _refinement_step(query, context, previous_state, step), the LLM answering
\* response
RefinementStep(query, context, previous_state, step, response) ==
    [step |-> step, type |-> "refinement",
     refinement |-> LoadsOr(response,
                       PyDict(<< <<KeyEntities, PyList(<<>>)>>,
                                 <<KeyRelevantContext, PyList(<<>>)>>,
                                 <<KeyApproach, PyStr(response)>>,
                                 <<KeyInsights, PyList(<<>>)>> >>)),
     prompt |-> RefinementPrompt(query, context, previous_state),
     response |-> response]

\* lines 215-220: the four values read from synthesis, or the AttributeError
\* of .get on a value that is no dictionary
SynthesisResult(synthesis, response) ==
    IF ~IsDict(synthesis) THEN [raised |-> "AttributeError"]
    ELSE [answer |-> DictGet(synthesis, KeyAnswer, PyStr(response)),
          confidence |-> DictGet(synthesis, KeyConfidence, PyFloat(1, 2)),
          evidence |-> DictGet(synthesis, KeyEvidence, PyList(<<>>)),
          limitations |-> DictGet(synthesis, KeyLimitations, PyStr(<<>>))]

\* _synthesize_answer, the LLM answering response
SynthesizeAnswer(response) ==
    TheOne({SynthesisResult(synthesis, response) :
               synthesis \in {LoadsOr(response,
                                 PyDict(<< <<KeyAnswer, PyStr(response)>>,
                                           <<KeyConfidence, PyFloat(1, 2)>>,
                                           <<KeyEvidence, PyList(<<>>)>>,
                                           <<KeyLimitations, PyStr(TextUnparsed)>> >>))}})

\* the search of the lower-cased response, without the lowering
ShouldStopEarlyExact(step_result) ==
    /\ "refinement" \in DOMAIN step_result
    /\ \/ IsSubstring(WordSufficient, step_result.response)
       \/ IsSubstring(WordAdequate, step_result.response)
       \/ IsSubstring(WordComplete, step_result.response)

\* _should_stop_early(step_result)
ShouldStopEarly(step_result) ==
    /\ "refinement" \in DOMAIN step_result
    /\ LET response == LowerText(step_result.response)
       IN  \/ IsSubstring(WordSufficient, response)
           \/ IsSubstring(WordAdequate, response)
           \/ IsSubstring(WordComplete, response)

-----------------------------------------------------------------------------
(* MultiStepReasoner: state machine.  A reason() call runs from one LLM    *)
(* call to the next; r_pc names the call it waits at.                      *)

NoReasonCall == [op |-> "none"]

ReasonInit ==
    /\ reasoning_history = <<>>
    /\ r_pc = "idle"
    /\ r_call = NoReasonCall
    /\ r_session = <<>>
    /\ r_current = <<>>
    /\ r_step = 0
    /\ r_llm = <<>>
    /\ r_result = <<>>

\* the locals of a call that is over
ReasonLocalsGone ==
    /\ r_session' = <<>>
    /\ r_current' = <<>>
    /\ r_step' = 0

\* reason(query, max_steps, context) up to the LLM call of _initial_analysis;
\* when the caller passes no context, context is what vector_store.query
\* answers
ReasonCall(query, max_steps, passed, context) ==
    /\ r_pc = "idle"
    /\ r_pc' = "initial_analysis"
    /\ r_call' = [op |-> "reason", query |-> query, max_steps |-> max_steps,
                  passed |-> passed, context |-> context]
    /\ r_session' = [session_id |-> Len(reasoning_history), query |-> query,
                     steps |-> <<>>, final_answer |-> PyStr(<<>>),
                     confidence |-> PyFloat(0, 1)]
    /\ r_current' = <<>>
    /\ r_step' = 0
    /\ r_llm' = <<>>
    /\ r_result' = <<>>
    /\ UNCHANGED <<reasoning_history, not_reason_vars>>

\* the LLM answers the initial analysis: lines 48-53, up to the next LLM call
ReasonInitialAnalysis(response) ==
    /\ r_pc = "initial_analysis"
    /\ \E step_result \in {InitialAnalysis(r_call.query, r_call.context, response)} :
           /\ r_session' = [r_session EXCEPT !.steps = Append(@, step_result)]
           /\ r_current' = step_result
    /\ r_llm' = Append(r_llm, "initial_analysis")
    /\ IF 1 < r_call.max_steps
       THEN r_pc' = "refinement" /\ r_step' = 1
       ELSE r_pc' = "synthesis" /\ r_step' = 0
    /\ UNCHANGED <<reasoning_history, r_call, r_result, not_reason_vars>>

\* the LLM answers a refinement: lines 54-61, up to the next LLM call
ReasonRefinementStep(response) ==
    /\ r_pc = "refinement"
    /\ \E step_result \in {RefinementStep(r_call.query, r_call.context, r_current,
                                         r_step, response)} :
           /\ r_session' = [r_session EXCEPT !.steps = Append(@, step_result)]
           /\ IF ShouldStopEarly(step_result)
              THEN r_pc' = "synthesis" /\ UNCHANGED <<r_current, r_step>>
              ELSE /\ r_current' = step_result
                   /\ IF r_step + 1 < r_call.max_steps
                      THEN r_pc' = "refinement" /\ r_step' = r_step + 1
                      ELSE r_pc' = "synthesis" /\ UNCHANGED r_step
    /\ r_llm' = Append(r_llm, "refinement")
    /\ UNCHANGED <<reasoning_history, r_call, r_result, not_reason_vars>>

\* the LLM answers the synthesis: lines 64-72
ReasonSynthesize(response) ==
    /\ r_pc = "synthesis"
    /\ r_llm' = Append(r_llm, "synthesis")
    /\ \E final_result \in {SynthesizeAnswer(response)} :
           IF "raised" \in DOMAIN final_result
           THEN /\ r_pc' = "raised"
                /\ r_result' = final_result
                /\ UNCHANGED reasoning_history
           ELSE LET reasoning_session ==
                        [session_id |-> r_session.session_id,
                         query |-> r_session.query,
                         steps |-> r_session.steps,
                         final_answer |-> final_result.answer,
                         confidence |-> final_result.confidence,
                         evidence |-> final_result.evidence]
                IN  /\ r_pc' = "returned"
                    /\ reasoning_history' = Append(reasoning_history, reasoning_session)
                    /\ r_result' = reasoning_session
    /\ ReasonLocalsGone
    /\ UNCHANGED <<r_call, not_reason_vars>>

\* a failure that is caught and the call made again
ReasonGenerateRetried ==
    /\ r_pc \in {"initial_analysis", "refinement", "synthesis"}
    /\ Len(r_llm) < MaxSteps + 2
    /\ r_llm' = Append(r_llm, r_pc)
    /\ UNCHANGED <<reasoning_history, r_pc, r_call, r_session, r_current, r_step,
                   r_result, not_reason_vars>>

\* a failure that stores the unfinished session all the same
ReasonGenerateRaisesStores ==
    /\ r_pc \in {"initial_analysis", "refinement", "synthesis"}
    /\ r_llm' = Append(r_llm, r_pc)
    /\ r_pc' = "raised"
    /\ r_result' = [raised |-> "Exception"]
    /\ reasoning_history' = Append(reasoning_history, r_session)
    /\ ReasonLocalsGone
    /\ UNCHANGED <<r_call, not_reason_vars>>

\* llm.generate raises: nothing in reason() catches it
ReasonGenerateRaises ==
    /\ r_pc \in {"initial_analysis", "refinement", "synthesis"}
    /\ r_llm' = Append(r_llm, r_pc)
    /\ r_pc' = "raised"
    /\ r_result' = [raised |-> "Exception"]
    /\ ReasonLocalsGone
    /\ UNCHANGED <<reasoning_history, r_call, not_reason_vars>>

\* the caller takes what reason() returned or raised
ReasonReturn ==
    /\ r_pc \in {"returned", "raised"}
    /\ r_pc' = "idle"
    /\ r_call' = NoReasonCall
    /\ r_llm' = <<>>
    /\ r_result' = <<>>
    /\ UNCHANGED <<reasoning_history, r_session, r_current, r_step, not_reason_vars>>

\* clear_history()
ReasonClearHistory ==
    /\ r_pc = "idle"
    /\ reasoning_history' = <<>>
    /\ UNCHANGED <<r_pc, r_call, r_session, r_current, r_step, r_llm, r_result,
                   not_reason_vars>>

\* a caller that asks one question per history
ReasonAsk ==
    /\ reasoning_history = <<>>
    /\ \E max_steps \in 0..MaxSteps, passed \in BOOLEAN, context \in ReasonContexts :
           ReasonCall(QueryWhy, max_steps, passed, context)

ReasonAnswer ==
    \/ \E response \in StepResponses :
          \/ ReasonInitialAnalysis(response)
          \/ ReasonRefinementStep(response)
    \/ \E response \in SynthesisResponses : ReasonSynthesize(response)

ReasonNext ==
    \/ ReasonAsk
    \/ ReasonAnswer
    \/ ReasonGenerateRaises
    \/ ReasonReturn
    \/ ReasonClearHistory

\* get_reasoning_history(): the caller gets a copy of the list
ReasonGetHistory ==
    /\ r_pc = "idle"
    /\ r_pc' = "returned"
    /\ r_call' = [op |-> "get_reasoning_history"]
    /\ r_result' = reasoning_history
    /\ UNCHANGED <<reasoning_history, r_session, r_current, r_step, r_llm,
                   not_reason_vars>>

\* a caller that asks question after question of one reasoner
HistoryAsk ==
    /\ Len(reasoning_history) < MaxSessions
    /\ \E max_steps \in 1..2 : ReasonCall(QueryWhy, max_steps, TRUE, <<>>)

HistoryAnswer ==
    \/ \E response \in {RespPlan, RespComplete} :
          \/ ReasonInitialAnalysis(response)
          \/ ReasonRefinementStep(response)
    \/ \E response \in {RespAnswer, RespSufficient} : ReasonSynthesize(response)

HistoryNext ==
    \/ HistoryAsk
    \/ HistoryAnswer
    \/ ReasonGenerateRaises
    \/ ReasonReturn
    \/ ReasonGetHistory
    \/ ReasonClearHistory

-----------------------------------------------------------------------------
(* BM25Retriever: state machine of the retriever taken alone.  What the    *)
(* float arithmetic of a search gives is a function of the index and the   *)
(* query: a search of the query of b_last finds the sums of b_last again.  *)

NoIndexCall == [op |-> "none"]

NoSearch == [searched |-> FALSE, query |-> <<>>, top_k |-> 0,
             score |-> <<>>, sorted_docs |-> <<>>, result |-> <<>>]

IndexInit ==
    /\ b_index = BM25Empty
    /\ b_pc = "idle"
    /\ b_call = NoIndexCall
    /\ b_result = <<>>
    /\ b_last = NoSearch

\* add_documents, lines 25-58
IndexAddDocuments(docs) ==
    /\ b_pc = "idle"
    /\ Len(b_index.documents) + Len(docs) <= MaxIndexDocs
    /\ b_index' = BM25AddDocuments(b_index, docs)
    /\ b_pc' = "returned"
    /\ b_call' = [op |-> "add_documents", docs |-> docs]
    /\ b_result' = [none |-> TRUE]
    /\ b_last' = NoSearch
    /\ UNCHANGED not_index_vars

\* search, lines 70-110.  Without a document it returns before any
\* arithmetic; an error of the arithmetic ends the call.
IndexSearch(query, top_k) ==
    /\ b_pc = "idle"
    /\ b_call' = [op |-> "search", query |-> query, top_k |-> top_k]
    /\ \E error \in {IF b_index.documents = <<>> THEN "none"
                      ELSE SearchError(b_index, TokensOf[query])} :
          IF error # "none"
          THEN /\ b_pc' = "raised"
               /\ b_result' = [raised |-> error]
               /\ b_last' = b_last
          ELSE /\ b_pc' = "returned"
               /\ \E score \in BM25Scores(b_index, query) :
                     /\ (b_last.searched /\ b_last.query = query) => score = b_last.score
                     /\ \E sorted_docs \in {IF b_index.documents = <<>> THEN <<>>
                                            ELSE BM25SortedDocs(b_index, score, top_k)} :
                        \E results \in {BM25Results(b_index, sorted_docs)} :
                           /\ b_result' = results
                           /\ b_last' = [searched |-> TRUE, query |-> query,
                                         top_k |-> top_k, score |-> score,
                                         sorted_docs |-> sorted_docs,
                                         result |-> results]
    /\ UNCHANGED <<b_index, not_index_vars>>

\* the caller has taken the outcome; the next call can start
IndexReturn ==
    /\ b_pc \in {"returned", "raised"}
    /\ b_pc' = "idle"
    /\ b_call' = NoIndexCall
    /\ b_result' = <<>>
    /\ UNCHANGED <<b_index, b_last, not_index_vars>>

IndexAdd == \E docs \in SeqsUpTo(IndexContents, 2) : IndexAddDocuments(docs)

IndexAsk == \E query \in IndexQueries, top_k \in IndexTopKs : IndexSearch(query, top_k)

IndexNext == IndexAdd \/ IndexAsk \/ IndexReturn

\* add_documents alone, over more contents: 'dog dog' repeats a word
IndexGrow ==
    \E docs \in SeqsUpTo(IndexContents \cup {TextDogs}, 2) : IndexAddDocuments(docs)

GrowthNext == IndexGrow \/ IndexReturn

-----------------------------------------------------------------------------
(* CrossModalRetriever.  A result of the vector store is a record with the *)
(* keys content, metadata and score; a metadata is a mapping from its keys *)
(* to tags, and a tag is a string of the text section.  A weight and a     *)
(* fused score are fractions.                                              *)

MaxStored == 2       \* documents in the vector store

CrossTopKs == {0, 1, 2}     \* top_k of cross_modal_search
FusionTopKs == {0, 1}       \* top_k of multimodal_fusion_search

TagText == <<"t","e","x","t">>
TagTable == <<"t","a","b","l","e">>
TagImage == <<"i","m","a","g","e">>
TagAudio == <<"a","u","d","i","o">>
TagVideo == <<"v","i","d","e","o">>
TagUnknown == <<"u","n","k","n","o","w","n">>
TagImageCapital == <<"I","m","a","g","e">>

Modalities == {TagText, TagImage, TagAudio, TagVideo, TagTable}

\* modality = None (or ''): no filter
NoModality == <<>>

\* the documents of the model: a text, a table, an image whose media_type
\* says text, and an audio clip that has no content_type
DocNote == [content |-> "note", metadata |-> [content_type |-> TagText]]
DocSheet == [content |-> "sheet", metadata |-> [content_type |-> TagTable]]
DocScan == [content |-> "scan",
            metadata |-> [content_type |-> TagImageCapital, media_type |-> TagText]]
DocClip == [content |-> "clip", metadata |-> [media_type |-> TagAudio]]
CrossDocs == {DocNote, DocSheet, DocScan, DocClip}

CrossQueries == {"words", "shapes"}

\* The score the vector store gives a document for a query: a function of
\* the two, here with equal and unequal scores for either query.
Similarity(query, content) ==
    IF query = "words" THEN (IF content \in {"note", "scan"} THEN 2 ELSE 1)
    ELSE (IF content \in {"scan", "clip"} THEN 2 ELSE 1)

\* What vector_store.query(query, n) may return (base.py, lines 18-29): at
\* most n of the stored documents, each once, in any order, with their scores
VectorQuery(store, query, n) ==
    LET picks == {p \in SeqsUpTo(1..Len(store), Min(n, Len(store))) :
                     \A i, j \in 1..Len(p) : i # j => p[i] # p[j]}
    IN  {[i \in 1..Len(p) |->
            [content |-> store[p[i]].content,
             metadata |-> store[p[i]].metadata,
             score |-> Similarity(query, store[p[i]].content)]] : p \in picks}

\* metadata.get(key, "unknown"), lines 49-50
MetaGet(metadata, key) ==
    IF key \in DOMAIN metadata THEN metadata[key] ELSE TagUnknown

\* _matches_modality, lines 62-91
MatchesModality(content_type, media_type, target_modality) ==
    LET ct == LowerText(content_type)
        mt == LowerText(media_type)
        tm == LowerText(target_modality)
    IN  IF tm = TagText THEN ct \in {TagText, TagTable} \/ mt \in {TagText}
        ELSE IF tm = TagImage THEN ct = TagImage \/ mt = TagImage
        ELSE IF tm = TagAudio THEN ct = TagAudio \/ mt = TagAudio
        ELSE IF tm = TagVideo THEN ct = TagVideo \/ mt = TagVideo
        ELSE IF tm = TagTable THEN ct = TagTable
        ELSE TRUE

\* cross_modal_search, lines 44-60, given the results of line 42
CrossModalResults(results, modality, top_k) ==
    LET filtered == IF modality # NoModality
                    THEN Filter(results,
                                [i \in 1..Len(results) |->
                                    MatchesModality(
                                        MetaGet(results[i].metadata, "content_type"),
                                        MetaGet(results[i].metadata, "media_type"),
                                        modality)])
                    ELSE results
    IN  Take(SortDesc(filtered, ScoresOf(filtered)), top_k)

RatAdd(a, b) == Rat(a.num * b.den + b.num * a.den, a.den * b.den)

RatEqual(a, b) == a.num * b.den = b.num * a.den

\* list.sort(key=fused_score, reverse=True): stable, highest first
SortDescRat(s, key) ==
    LET n == Len(s)
        rank(i) == Cardinality({j \in 1..n : RatLess(key[i], key[j])})
                   + Cardinality({j \in 1..(i-1) : RatEqual(key[j], key[i])})
                   + 1
    IN  [p \in 1..n |-> s[CHOOSE i \in 1..n : rank(i) = p]]

NoWeights == [none |-> TRUE]

\* lines 105-106: weights is a mapping from modalities to fractions
GivenWeights(queries, weights) ==
    IF "none" \in DOMAIN weights
    THEN [m \in {queries[i][1] : i \in 1..Len(queries)} |-> Rat(1, Len(queries))]
    ELSE weights.dict

\* weights.get(modality, 1.0/len(modality_results)), line 137
WeightOf(weights, modality, count) ==
    IF modality \in DOMAIN weights THEN weights[modality] ELSE Rat(1, count)

\* lines 139-156 for the results of one modality; result_map is the sequence
\* of the values of the dict, in the order of their insertion
RECURSIVE FuseModality(_, _, _, _)
FuseModality(result_map, modality, weight, results) ==
    IF results = <<>> THEN result_map
    ELSE LET result == Head(results)
             weighted_score == Rat(result.score * weight.num, weight.den)
             at == {i \in 1..Len(result_map) : result_map[i].content = result.content}
             next == IF at # {}
                     THEN [i \in 1..Len(result_map) |->
                             IF i \in at
                             THEN [result_map[i] EXCEPT
                                     !.fused_score = RatAdd(@, weighted_score),
                                     !.modalities = Append(@, modality)]
                             ELSE result_map[i]]
                     ELSE Append(result_map,
                                 [content |-> result.content,
                                  metadata |-> result.metadata,
                                  original_score |-> result.score,
                                  fused_score |-> weighted_score,
                                  modalities |-> <<modality>>])
         IN  FuseModality(next, modality, weight, Tail(results))

\* lines 136-156: modality_results is the sequence of the (modality, results)
\* items of the dict
RECURSIVE FuseEach(_, _, _, _)
FuseEach(result_map, modality_results, weights, count) ==
    IF modality_results = <<>> THEN result_map
    ELSE LET item == Head(modality_results)
         IN  FuseEach(FuseModality(result_map, item[1],
                                   WeightOf(weights, item[1], count), item[2]),
                      Tail(modality_results), weights, count)

\* _fuse_results, lines 119-163
FuseResults(modality_results, weights, top_k) ==
    LET fused_results == FuseEach(<<>>, modality_results, weights,
                                  Len(modality_results))
        keys == [i \in 1..Len(fused_results) |-> fused_results[i].fused_score]
    IN  Take(SortDescRat(fused_results, keys), top_k)

\* the dicts queries of the model, as sequences of (modality, query) items
FusionQueries ==
    {<<>>,
     <<<<TagText, "words">>>>,
     <<<<TagText, "words">>, <<TagImage, "shapes">>>>,
     <<<<TagImage, "shapes">>, <<TagText, "shapes">>>>}

\* weights: None, a weight for one modality, a weight for two
FusionWeights ==
    {NoWeights,
     [dict |-> (TagText :> Rat(2, 1))],
     [dict |-> (TagText :> Rat(1, 2)) @@ (TagImage :> Rat(3, 1))]}

-----------------------------------------------------------------------------
(* CrossModalRetriever: state machine                                      *)

NoCrossCall == [op |-> "none"]

CrossInit ==
    /\ x_store = <<>>
    /\ x_pc = "idle"
    /\ x_call = NoCrossCall
    /\ x_result = <<>>

\* add_multimodal_documents, lines 21-28
CrossAddDocuments(documents) ==
    /\ x_pc = "idle"
    /\ Len(x_store) + Len(documents) <= MaxStored
    /\ x_store' = x_store \o documents
    /\ x_pc' = "returned"
    /\ x_call' = [op |-> "add_multimodal_documents", documents |-> documents]
    /\ x_result' = <<>>
    /\ UNCHANGED not_cross_vars

\* cross_modal_search, lines 30-60
CrossModalSearch(query, modality, top_k) ==
    /\ x_pc = "idle"
    /\ \E results \in VectorQuery(x_store, query, top_k * 2) :
          /\ x_call' = [op |-> "cross_modal_search", query |-> query,
                        modality |-> modality, top_k |-> top_k,
                        results |-> results]
          /\ x_result' = CrossModalResults(results, modality, top_k)
    /\ x_pc' = "returned"
    /\ UNCHANGED <<x_store, not_cross_vars>>

\* the results vector_store.query can give for each item of queries
ModalityResults(queries, top_k) ==
    {[i \in 1..Len(queries) |-> <<queries[i][1], found[i]>>] :
        found \in {f \in [1..Len(queries) ->
                            UNION {VectorQuery(x_store, queries[i][2], top_k * 2) :
                                      i \in 1..Len(queries)}] :
                      \A i \in 1..Len(queries) :
                          f[i] \in VectorQuery(x_store, queries[i][2], top_k * 2)}}

\* multimodal_fusion_search, lines 93-117
FusionSearch(queries, weights, top_k) ==
    /\ x_pc = "idle"
    /\ \E modality_results \in ModalityResults(queries, top_k) :
          /\ x_call' = [op |-> "multimodal_fusion_search", queries |-> queries,
                        weights |-> weights, top_k |-> top_k,
                        modality_results |-> modality_results]
          /\ x_result' = FuseResults(modality_results,
                                     GivenWeights(queries, weights), top_k)
    /\ x_pc' = "returned"
    /\ UNCHANGED <<x_store, not_cross_vars>>

\* the caller has taken the result; the next call can start
CrossReturn ==
    /\ x_pc = "returned"
    /\ x_pc' = "idle"
    /\ x_call' = NoCrossCall
    /\ x_result' = <<>>
    /\ UNCHANGED <<x_store, not_cross_vars>>

CrossAdd == \E documents \in SeqsUpTo(CrossDocs, 1) : CrossAddDocuments(documents)

CrossAsk ==
    \E query \in CrossQueries, modality \in Modalities \cup {NoModality},
       top_k \in CrossTopKs :
        CrossModalSearch(query, modality, top_k)

FusionAsk ==
    \E queries \in FusionQueries, weights \in FusionWeights, top_k \in FusionTopKs :
        FusionSearch(queries, weights, top_k)

CrossNext == CrossAdd \/ CrossAsk \/ CrossReturn

FusionNext == CrossAdd \/ FusionAsk \/ CrossReturn

-----------------------------------------------------------------------------
(* MultiStepReasoner with several callers.  One caller runs at a time; at  *)
(* an LLM call the running reason() call can be set aside, with its        *)
(* locals, for another caller to use the reasoner, and taken up again.     *)

MaxCallers == 2      \* callers of one reasoner

WaitInit == r_waiting = <<>>

not_caller_vars == <<hybrid_vars, cite_vars, index_vars, cross_vars,
                     rerank_vars, universal_vars, generate_vars>>

\* the running call waits at its LLM call; the reasoner is free for another
\* caller
ReasonPark ==
    /\ r_pc \in {"initial_analysis", "refinement", "synthesis"}
    /\ Len(r_waiting) < MaxCallers - 1
    /\ r_waiting' = Append(r_waiting,
                           [pc |-> r_pc, call |-> r_call, session |-> r_session,
                            current |-> r_current, step |-> r_step, llm |-> r_llm])
    /\ r_pc' = "idle"
    /\ r_call' = NoReasonCall
    /\ r_llm' = <<>>
    /\ ReasonLocalsGone
    /\ UNCHANGED <<reasoning_history, r_result, not_caller_vars>>

\* a waiting call runs again, where it stopped
ReasonResume ==
    /\ r_pc = "idle"
    /\ \E i \in 1..Len(r_waiting) :
          /\ r_pc' = r_waiting[i].pc
          /\ r_call' = r_waiting[i].call
          /\ r_session' = r_waiting[i].session
          /\ r_current' = r_waiting[i].current
          /\ r_step' = r_waiting[i].step
          /\ r_llm' = r_waiting[i].llm
          /\ r_waiting' = SubSeq(r_waiting, 1, i - 1)
                              \o SubSeq(r_waiting, i + 1, Len(r_waiting))
    /\ UNCHANGED <<reasoning_history, r_result, not_caller_vars>>

\* callers that ask until MaxSessions calls have been made
InterleaveAsk ==
    /\ Len(reasoning_history) + Len(r_waiting) < MaxSessions
    /\ \E max_steps \in 1..2 : ReasonCall(QueryWhy, max_steps, TRUE, <<>>)

InterleaveAnswer ==
    \/ \E response \in {RespPlan} :
          \/ ReasonInitialAnalysis(response)
          \/ ReasonRefinementStep(response)
    \/ \E response \in {RespAnswer, RespSure} : ReasonSynthesize(response)

InterleaveNext ==
    \/ InterleaveAsk
    \/ InterleaveAnswer
    \/ ReasonPark
    \/ ReasonResume
    \/ ReasonReturn
    \/ ReasonClearHistory

-----------------------------------------------------------------------------
(* LightweightReranker and BGEReranker.  A document is a record (a dict)   *)
(* with the key content; a rerank_score is a fraction.                     *)

MaxRerankDocs == 3     \* documents of one rerank call

RerankTopKs == {0, 1, 2, 3}

\* the maximal runs of characters that are not white space, from position i
RECURSIVE SplitFrom_(_, _)
SplitFrom_(s, i) ==
    LET ink == {j \in i..Len(s) : s[j] \notin Whitespace}
    IN  IF ink = {} THEN <<>>
        ELSE LET start == FirstIn(ink)
                 rest == {j \in start..Len(s) : s[j] \in Whitespace}
                 end == IF rest = {} THEN Len(s) ELSE FirstIn(rest) - 1
             IN  <<SubSeq(s, start, end)>> \o SplitFrom_(s, end + 1)

\* str.split()
StrSplit(s) == SplitFrom_(s, 1)

\* the occurrences of sub in s from position i on that do not overlap,
\* counted from the left; sub is not empty
RECURSIVE CountFrom(_, _, _)
CountFrom(s, sub, i) ==
    LET at == {j \in i..(Len(s) - Len(sub) + 1) : SubSeq(s, j, j + Len(sub) - 1) = sub}
    IN  IF at = {} THEN 0 ELSE 1 + CountFrom(s, sub, FirstIn(at) + Len(sub))

\* str.count(sub)
StrCount(s, sub) == CountFrom(s, sub, 1)

\* lines 119-130: the rerank_score of one document
LightweightScore(query_terms, doc) ==
    LET content == LowerText(doc.content)
        counts == [i \in 1..Len(query_terms) |-> StrCount(content, query_terms[i])]
        words == Len(StrSplit(content))
    IN  IF words > 0 THEN Rat(SumValues(counts), words) ELSE Rat(SumValues(counts), 1)

\* doc["rerank_score"] = score
WithRerankScore(doc, score) == ("rerank_score" :> score) @@ doc

LightweightRerankUnsorted(query, documents, top_k) ==
    IF documents = <<>> THEN <<>>
    ELSE LET query_terms == StrSplit(LowerText(query))
             scored == [i \in 1..Len(documents) |->
                           WithRerankScore(documents[i],
                                           LightweightScore(query_terms, documents[i]))]
         IN  Take(scored, top_k)

\* LightweightReranker.rerank, lines 111-135
LightweightRerank(query, documents, top_k) ==
    IF documents = <<>> THEN <<>>
    ELSE LET query_terms == StrSplit(LowerText(query))
             scored == [i \in 1..Len(documents) |->
                           WithRerankScore(documents[i],
                                           LightweightScore(query_terms, documents[i]))]
             keys == [i \in 1..Len(scored) |-> scored[i].rerank_score]
         IN  Take(SortDescRat(scored, keys), top_k)

\* What _load_model does when the model is None, lines 24-42: it loads the
\* model, or the import fails, or the loading fails
LoadOutcomes == {"loaded", "ImportError", "RuntimeError"}

\* BGEReranker.rerank, lines 55-90, after _load_model has returned: no
\* statement of the module binds the name torch that line 66 reads
BgeRerankLoaded(query, documents, top_k) ==
    IF documents = <<>> THEN <<>> ELSE [raised |-> "NameError"]

\* the documents and queries of the model: '' is the empty content
RerankContents == {TextCat, TextDogs, TextCatSat, <<>>}

RerankQueries == {QueryCat, QueryCatDog, QueryDots}

-----------------------------------------------------------------------------
(* Re-rankers: state machine                                               *)

NoRerankCall == [op |-> "none"]

RerankInit ==
    /\ k_model = "none"
    /\ k_pc = "idle"
    /\ k_call = NoRerankCall
    /\ k_result = <<>>

\* LightweightReranker.rerank(query, documents, top_k)
LightRerank(query, documents, top_k) ==
    /\ k_pc = "idle"
    /\ k_pc' = "returned"
    /\ k_call' = [op |-> "lightweight", query |-> query, documents |-> documents,
                  top_k |-> top_k]
    /\ k_result' = LightweightRerank(query, documents, top_k)
    /\ UNCHANGED <<k_model, not_rerank_vars>>

\* BGEReranker.rerank(query, documents, top_k), lines 55-90, where load is
\* what _load_model does if it has to load
BgeRerank(query, documents, top_k, load) ==
    /\ k_pc = "idle"
    /\ k_call' = [op |-> "bge", query |-> query, documents |-> documents,
                  top_k |-> top_k]
    /\ IF k_model = "none" /\ load # "loaded"
       THEN /\ k_pc' = "raised"
            /\ k_result' = [raised |-> load]
            /\ k_model' \in IF load = "RuntimeError" THEN {"none", "loaded"} ELSE {"none"}
       ELSE /\ k_model' = "loaded"
            /\ \E outcome \in {BgeRerankLoaded(query, documents, top_k)} :
                  /\ k_result' = outcome
                  /\ k_pc' = IF documents = <<>> THEN "returned" ELSE "raised"
    /\ UNCHANGED not_rerank_vars

\* the caller has taken the outcome; the next call can start
RerankReturn ==
    /\ k_pc \in {"returned", "raised"}
    /\ k_pc' = "idle"
    /\ k_call' = NoRerankCall
    /\ k_result' = <<>>
    /\ UNCHANGED <<k_model, not_rerank_vars>>

RerankDocuments == SeqsUpTo([content : RerankContents], MaxRerankDocs)

LightAsk ==
    \E query \in RerankQueries, documents \in RerankDocuments, top_k \in RerankTopKs :
        LightRerank(query, documents, top_k)

BgeAsk ==
    \E query \in RerankQueries, documents \in SeqsUpTo([content : RerankContents], 1),
       top_k \in RerankTopKs, load \in LoadOutcomes :
        BgeRerank(query, documents, top_k, load)

RerankNext == LightAsk \/ BgeAsk \/ RerankReturn

-----------------------------------------------------------------------------
(* UniversalRetriever: state machine                                       *)

NoUniversalCall == [op |-> "none"]

MaxUniversalDocs == 2     \* documents one retriever is given in all

UniversalQueries == {<<"c","a","t">>, <<"a"," ","d","o","g">>}

\* __init__, lines 23-35, with the default re-ranker
UniversalInit ==
    /\ use_bge_reranker = FALSE
    /\ u_pc = "idle"
    /\ u_call = NoUniversalCall
    /\ u_result = <<>>

\* __init__ with either re-ranker
UniversalConstructed ==
    /\ use_bge_reranker \in BOOLEAN
    /\ u_pc = "idle"
    /\ u_call = NoUniversalCall
    /\ u_result = <<>>

\* What vector_store.add does: it stores the documents or it raises
AddOutcomes == {"stored", "raises"}

\* add_documents(documents), lines 43-47: HybridRetriever.add_documents
\* (vector_store.add, then the BM25 index), then
\* CrossModalRetriever.add_multimodal_documents (vector_store.add of the same
\* store); first and second are what the two calls of vector_store.add do
UniversalAddDocuments(docs, first, second) ==
    /\ u_pc = "idle"
    /\ Len(bm25.documents) + Len(docs) <= MaxUniversalDocs
    /\ u_call' = [op |-> "add_documents", documents |-> docs]
    /\ IF first = "raises"
       THEN /\ u_pc' = "raised"
            /\ u_result' = [raised |-> "Exception"]
            /\ UNCHANGED <<vs_documents, bm25>>
       ELSE /\ bm25' = BM25AddDocuments(bm25, docs)
            /\ IF second = "raises"
               THEN /\ vs_documents' = vs_documents \o docs
                    /\ u_pc' = "raised"
                    /\ u_result' = [raised |-> "Exception"]
               ELSE /\ vs_documents' = (vs_documents \o docs) \o docs
                    /\ u_pc' = "returned"
                    /\ u_result' = [none |-> TRUE]
    /\ UNCHANGED <<keyword_weight, h_pc, h_call, h_combined, h_results,
                   use_bge_reranker, rerank_vars, not_universal_vars>>

\* the hybrid_score sort key of line 68
HybridScoreKey(results) == [i \in 1..Len(results) |-> results[i].hybrid_score]

\* lines 66-69: sort by hybrid score and cut
SortedByHybridScore(results, top_k) ==
    Take(SortDesc(results, HybridScoreKey(results)), top_k)

\* search(query, top_k, use_reranking), lines 61-71, where load is what
\* BGEReranker._load_model does if it has to load
UniversalSearch(query, top_k, use_reranking, load) ==
    /\ u_pc = "idle"
    /\ \E score \in BM25Scores(bm25, query) :
       \E vector_results \in VectorQueryResults((top_k * 2) * 2) :
       \E results \in {CombineResults(vector_results,
                                      BM25Search(bm25, score, (top_k * 2) * 2),
                                      top_k * 2, keyword_weight)} :
          /\ u_call' = [op |-> "search", query |-> query, top_k |-> top_k,
                        use_reranking |-> use_reranking, asked |-> top_k * 2,
                        results |-> results]
          /\ IF use_reranking /\ results # <<>>
             THEN IF use_bge_reranker
                  THEN /\ u_pc' = "raised"
                       /\ IF k_model = "none" /\ load # "loaded"
                          THEN /\ u_result' = [raised |-> load]
                               /\ k_model' \in IF load = "RuntimeError"
                                               THEN {"none", "loaded"} ELSE {"none"}
                          ELSE /\ u_result' = BgeRerankLoaded(query, results, top_k)
                               /\ k_model' = "loaded"
                  ELSE /\ u_pc' = "returned"
                       /\ u_result' = LightweightRerank(query, results, top_k)
                       /\ k_model' = k_model
             ELSE /\ u_pc' = "returned"
                  /\ u_result' = SortedByHybridScore(results, top_k)
                  /\ k_model' = k_model
    /\ UNCHANGED <<hybrid_vars, use_bge_reranker, k_pc, k_call, k_result,
                   not_universal_vars>>

\* the caller has taken the outcome; the next call can start
UniversalReturn ==
    /\ u_pc \in {"returned", "raised"}
    /\ u_pc' = "idle"
    /\ u_call' = NoUniversalCall
    /\ u_result' = <<>>
    /\ UNCHANGED <<hybrid_vars, use_bge_reranker, rerank_vars, not_universal_vars>>

UniversalAdd ==
    \E docs \in SeqsUpTo(Contents, 2), first \in AddOutcomes, second \in AddOutcomes :
        UniversalAddDocuments(docs, first, second)

UniversalAsk ==
    \E query \in UniversalQueries, top_k \in TopKs, use_reranking \in BOOLEAN,
       load \in LoadOutcomes :
        UniversalSearch(query, top_k, use_reranking, load)

UniversalNext == UniversalAdd \/ UniversalAsk \/ UniversalReturn

-----------------------------------------------------------------------------
(* ConstrainedGenerator.  A prompt is the sequence of the pieces the code  *)
(* concatenates: the caller's text, the instructions generate_json and     *)
(* generate_with_regex add, and one feedback block per refinement.         *)

MaxAttempts == 2       \* max_attempts ranges over 0..MaxAttempts

\* 'say'
PromptSay == <<"s","a","y">>

KeywordCat == <<"c","a","t">>
KeywordDog == <<"d","o","g">>

\* constraint functions: one that wants 'cat' in the response, one that
\* raises, and an entry that is not callable
WantsCat == "wants_cat"
RaisesError == "raises"
NotCallable == "not_callable"

\* constraints dicts
ConstraintSets ==
    {[max_length |-> 3],
     [min_length |-> 1, required_keywords |-> <<KeywordCat>>],
     [forbidden_keywords |-> <<KeywordDog, KeywordCat>>],
     [custom_constraints |-> <<NotCallable, WantsCat>>],
     [custom_constraints |-> <<RaisesError>>],
     [unknown |-> 0]}

\* what the LLM answers: 'cat', 'dog', 'cat dog', ''
ConstraintResponses ==
    {KeywordCat, KeywordDog, <<"c","a","t"," ","d","o","g">>, <<>>}

\* constraint_func(response): (satisfied, violation), or an exception
CallConstraint(constraint_func, response) ==
    CASE constraint_func = WantsCat ->
            IF IsSubstring(KeywordCat, response)
            THEN [satisfied |-> TRUE, violation |-> <<"custom", "">>]
            ELSE [satisfied |-> FALSE, violation |-> <<"custom", "no cat">>]
      [] constraint_func = RaisesError -> [raised |-> "ValueError"]

\* the keywords of the list that are (found = TRUE) or are not in response
KeywordsWhere(keywords, response, found) ==
    SelectSeq(keywords, LAMBDA keyword : IsSubstring(keyword, response) = found)

\* lines 203-214: the custom constraint functions, one after the other
RECURSIVE CheckCustom(_, _, _)
CheckCustom(results, funcs, response) ==
    IF funcs = <<>> THEN results
    ELSE LET constraint_func == Head(funcs)
             next ==
                 IF constraint_func = NotCallable THEN results
                 ELSE LET r == CallConstraint(constraint_func, response)
                      IN  IF "raised" \in DOMAIN r
                          THEN [satisfied |-> FALSE,
                                violations |-> Append(results.violations,
                                                      <<"function_error", r.raised>>)]
                          ELSE IF ~r.satisfied
                               THEN [satisfied |-> FALSE,
                                     violations |-> Append(results.violations, r.violation)]
                               ELSE results
         IN  CheckCustom(next, Tail(funcs), response)

\* _check_constraints(response, constraints), lines 169-216
CheckConstraints(response, constraints) ==
    LET has(key) == key \in DOMAIN constraints
        r0 == [satisfied |-> TRUE, violations |-> <<>>]
        r1 == IF has("max_length") /\ Len(response) > constraints.max_length
              THEN [satisfied |-> FALSE,
                    violations |-> Append(r0.violations,
                        <<"too_long", Len(response), constraints.max_length>>)]
              ELSE r0
        r2 == IF has("min_length") /\ Len(response) < constraints.min_length
              THEN [satisfied |-> FALSE,
                    violations |-> Append(r1.violations,
                        <<"too_short", Len(response), constraints.min_length>>)]
              ELSE r1
        missing_keywords ==
            IF has("required_keywords")
            THEN KeywordsWhere(constraints.required_keywords, response, FALSE)
            ELSE <<>>
        r3 == IF missing_keywords # <<>>
              THEN [satisfied |-> FALSE,
                    violations |-> Append(r2.violations, <<"missing", missing_keywords>>)]
              ELSE r2
        forbidden_found ==
            IF has("forbidden_keywords")
            THEN KeywordsWhere(constraints.forbidden_keywords, response, TRUE)
            ELSE <<>>
        r4 == IF forbidden_found # <<>>
              THEN [satisfied |-> FALSE,
                    violations |-> Append(r3.violations, <<"forbidden", forbidden_found>>)]
              ELSE r3
    IN  IF has("custom_constraints")
        THEN CheckCustom(r4, constraints.custom_constraints, response)
        ELSE r4

\* (the prompt is handed back as it was)
RefinePromptKeeps(prompt, response, constraint_check) == prompt

\* _refine_prompt, lines 273-282
RefinePrompt(prompt, response, constraint_check) ==
    IF constraint_check.violations = <<>> THEN prompt
    ELSE Append(prompt, [feedback |-> constraint_check.violations])

\* the name of a value's type, type(value).__name__
TypeName(value) ==
    CASE "str" \in DOMAIN value -> "str"
      [] "int" \in DOMAIN value -> "int"
      [] "float" \in DOMAIN value -> "float"
      [] "bool" \in DOMAIN value -> "bool"
      [] "list" \in DOMAIN value -> "list"
      [] "dict" \in DOMAIN value -> "dict"
      [] OTHER -> "NoneType"

\* field in data, for a str field: a key of a dict, an item of a list, a
\* part of a str; a TypeError for a value that is no container
FieldIn(field, data) ==
    CASE TypeName(data) = "dict" ->
            [value |-> \E i \in 1..Len(data.dict) : data.dict[i][1] = field]
      [] TypeName(data) = "list" ->
            [value |-> \E i \in 1..Len(data.list) : data.list[i] = PyStr(field)]
      [] TypeName(data) = "str" -> [value |-> IsSubstring(field, data.str)]
      [] OTHER -> [raised |-> "TypeError"]

\* data[field], for a str field that is in data
FieldOf(field, data) ==
    IF TypeName(data) = "dict"
    THEN [value |-> DictGet(data, field, [none |-> TRUE])]
    ELSE [raised |-> "TypeError"]

\* lines 241-258: whether a value of type actual_type passes expected_type
TypeAccepted(expected_type, actual_type) ==
    CASE expected_type = "string" -> actual_type = "str"
      [] expected_type = "number" -> actual_type \in {"int", "float"}
      [] expected_type = "boolean" -> actual_type = "bool"
      [] expected_type = "array" -> actual_type = "list"
      [] expected_type = "object" -> actual_type = "dict"
      [] OTHER -> TRUE

\* lines 231-235: the required fields, one after the other
RECURSIVE CheckRequired(_, _, _)
CheckRequired(results, fields, data) ==
    IF fields = <<>> \/ "raised" \in DOMAIN results THEN results
    ELSE LET found == FieldIn(Head(fields), data)
             next == IF "raised" \in DOMAIN found THEN found
                     ELSE IF ~found.value
                          THEN [valid |-> FALSE,
                                errors |-> Append(results.errors, <<"missing", Head(fields)>>)]
                          ELSE results
         IN  CheckRequired(next, Tail(fields), data)

\* lines 238-258: the properties, one after the other; a property is a pair
\* of a field and the type its schema names ("" for none)
RECURSIVE CheckProperties(_, _, _)
CheckProperties(results, properties, data) ==
    IF properties = <<>> \/ "raised" \in DOMAIN results THEN results
    ELSE LET field == Head(properties)[1]
             expected_type == Head(properties)[2]
             found == FieldIn(field, data)
             next ==
                 IF "raised" \in DOMAIN found THEN found
                 ELSE IF ~found.value \/ expected_type = "" THEN results
                 ELSE LET item == FieldOf(field, data)
                      IN  IF "raised" \in DOMAIN item THEN item
                          ELSE IF TypeAccepted(expected_type, TypeName(item.value))
                               THEN results
                               ELSE [valid |-> FALSE,
                                     errors |-> Append(results.errors,
                                         <<"type", field, expected_type,
                                           TypeName(item.value)>>)]
         IN  CheckProperties(next, Tail(properties), data)

\* _validate_json_schema(data, schema), lines 228-260: the check, or the
\* exception it raises
ValidateJsonSchema(data, schema) ==
    LET r0 == [valid |-> TRUE, errors |-> <<>>]
        r1 == IF "required" \in DOMAIN schema
              THEN CheckRequired(r0, schema.required, data) ELSE r0
    IN  IF "properties" \in DOMAIN schema
        THEN CheckProperties(r1, schema.properties, data) ELSE r1

\* schema = None
NoSchema == [none |-> TRUE]

FieldA == <<"a">>

Schemas ==
    {NoSchema,
     [required |-> <<FieldA>>],
     [properties |-> << <<FieldA, "string">> >>],
     [required |-> <<FieldA>>, properties |-> << <<FieldA, "number">> >>]}

\* `if schema`
SchemaGiven(schema) == schema # NoSchema

\* what the LLM answers: '7', '{"a": 1}', '{"a": "x"}', '{', '"a"'
JsonResponses ==
    {<<"7">>,
     <<"{","\"","a","\"",":"," ","1","}">>,
     <<"{","\"","a","\"",":"," ","\"","x","\"","}">>,
     <<"{">>,
     <<"\"","a","\"">>}

\* lines 71-75: the prompt generate_json starts with
JsonPrompt(prompt, schema) ==
    <<[text |-> prompt], [json_instructions |-> schema]>>

\* _refine_json_prompt, lines 295-306
RefineJsonPrompt(prompt, response, validation_result) ==
    Append(prompt,
           [json_feedback |->
               [error |-> IF "error" \in DOMAIN validation_result
                          THEN validation_result.error ELSE "",
                errors |-> IF "errors" \in DOMAIN validation_result
                           THEN validation_result.errors ELSE <<>>]])

\* patterns: r'\d+', 'cat' and '(' , which does not compile
PatternDigits == <<"\\","d","+">>
PatternCat == KeywordCat
PatternOpen == <<"(">>

Patterns == {PatternDigits, PatternCat, PatternOpen}

\* what the LLM answers: '42', 'a 42', 'cats', ''
RegexResponses == {<<"4","2">>, <<"a"," ","4","2">>, <<"c","a","t","s">>, <<>>}

\* re.match(pattern, response): whether the pattern matches at the start of
\* the response, or the error of a pattern that does not compile
ReMatch(pattern, response) ==
    CASE pattern = PatternDigits ->
            [value |-> response # <<>> /\ response[1] \in DigitSet]
      [] pattern = PatternCat -> [value |-> StartsAt(response, 1, PatternCat)]
      [] pattern = PatternOpen -> [raised |-> "re.error"]

\* lines 131-133: the prompt generate_with_regex starts with
RegexPrompt(prompt, pattern) ==
    <<[text |-> prompt], [pattern_instructions |-> pattern]>>

\* _refine_regex_prompt, lines 319-320
RefineRegexPrompt(prompt, response, pattern) ==
    Append(prompt, [pattern_feedback |-> pattern])

-----------------------------------------------------------------------------
(* ConstrainedGenerator: state machine.  A call runs from one llm.generate *)
(* to the next; g_llm holds the prompts sent and the responses got.        *)

NoGenerateCall == [op |-> "none"]

NoLocals == <<>>

NoExchange == [prompts |-> <<>>, responses |-> <<>>]

GenerateInit ==
    /\ g_pc = "idle"
    /\ g_call = NoGenerateCall
    /\ g_local = NoLocals
    /\ g_llm = NoExchange
    /\ g_result = <<>>

\* the head of the three loops, `for attempt in range(max_attempts)` with
\* the first llm.generate(prompt); with an empty range the return after the
\* loop reads the local response, which was never bound
EnterLoop(prompt, max_attempts) ==
    IF max_attempts = 0
    THEN /\ g_pc' = "raised"
         /\ g_local' = [prompt |-> prompt]
         /\ g_llm' = NoExchange
         /\ g_result' = [raised |-> "UnboundLocalError"]
    ELSE /\ g_pc' = "generate"
         /\ g_local' = [prompt |-> prompt, attempt |-> 0]
         /\ g_llm' = [prompts |-> <<prompt>>, responses |-> <<>>]
         /\ g_result' = <<>>

\* the end of an attempt that did not return: the next attempt with its
\* llm.generate, or the loop is left with the locals as they are
NextAttempt(prompt, response) ==
    /\ g_local' = [prompt |-> prompt, attempt |-> g_local.attempt + 1,
                   response |-> response]
    /\ IF g_local.attempt + 1 < g_call.max_attempts
       THEN /\ g_pc' = "generate"
            /\ g_llm' = [prompts |-> Append(g_llm.prompts, prompt),
                         responses |-> Append(g_llm.responses, response)]
       ELSE /\ g_pc' = "returned"
            /\ g_llm' = [g_llm EXCEPT !.responses = Append(@, response)]

\* the attempt returns or raises
LeaveLoop(pc, response, result) ==
    /\ g_pc' = pc
    /\ g_local' = [response |-> response] @@ g_local
    /\ g_llm' = [g_llm EXCEPT !.responses = Append(@, response)]
    /\ g_result' = result

\* generate_with_constraints(prompt, constraints, max_attempts), line 30
GenerateWithConstraints(prompt, constraints, max_attempts) ==
    /\ g_pc = "idle"
    /\ g_call' = [op |-> "generate_with_constraints", prompt |-> prompt,
                  constraints |-> constraints, max_attempts |-> max_attempts]
    /\ EnterLoop(<<[text |-> prompt]>>, max_attempts)
    /\ UNCHANGED not_generate_vars

\* lines 32-55: the LLM has answered response
ConstraintsAttempt(response) ==
    /\ g_pc = "generate"
    /\ g_call.op = "generate_with_constraints"
    /\ \E constraint_check \in {CheckConstraints(response, g_call.constraints)} :
          IF constraint_check.satisfied
          THEN LeaveLoop("returned", response,
                         [response |-> response, constraints_satisfied |-> TRUE,
                          constraint_check |-> constraint_check,
                          attempts |-> g_local.attempt + 1])
          ELSE /\ NextAttempt(RefinePrompt(g_local.prompt, response, constraint_check),
                              response)
               /\ g_result' =
                     IF g_local.attempt + 1 < g_call.max_attempts THEN <<>>
                     ELSE [response |-> response, constraints_satisfied |-> FALSE,
                           constraint_check |-> constraint_check,
                           attempts |-> g_call.max_attempts,
                           warning |-> "Constraints not fully satisfied after maximum attempts"]
    /\ UNCHANGED <<g_call, not_generate_vars>>

\* generate_json(prompt, schema, max_attempts), lines 69-77
GenerateJson(prompt, schema, max_attempts) ==
    /\ g_pc = "idle"
    /\ g_call' = [op |-> "generate_json", prompt |-> prompt, schema |-> schema,
                  max_attempts |-> max_attempts]
    /\ EnterLoop(JsonPrompt(prompt, schema), max_attempts)
    /\ UNCHANGED not_generate_vars

\* the return after the loop of generate_json, lines 111-117
JsonFailure(response) ==
    [response |-> PyStr(response), valid_json |-> FALSE, schema_valid |-> [bool |-> FALSE],
     attempts |-> g_call.max_attempts,
     error |-> "Unable to generate valid JSON after maximum attempts"]

\* lines 79-117: the LLM has answered response
JsonAttempt(response) ==
    /\ g_pc = "generate"
    /\ g_call.op = "generate_json"
    /\ \E parsed \in {JsonLoads(response)} :
          IF "raised" \in DOMAIN parsed
          THEN /\ NextAttempt(RefineJsonPrompt(g_local.prompt, response,
                                  [valid |-> FALSE, error |-> parsed.raised]),
                              response)
               /\ g_result' = IF g_local.attempt + 1 < g_call.max_attempts THEN <<>>
                              ELSE JsonFailure(response)
          ELSE IF ~SchemaGiven(g_call.schema)
          THEN LeaveLoop("returned", response,
                         [response |-> parsed.value, valid_json |-> TRUE,
                          schema_valid |-> [none |-> TRUE],
                          attempts |-> g_local.attempt + 1])
          ELSE \E schema_check \in {ValidateJsonSchema(parsed.value, g_call.schema)} :
                  IF "raised" \in DOMAIN schema_check
                  THEN LeaveLoop("raised", response, schema_check)
                  ELSE IF schema_check.valid
                  THEN LeaveLoop("returned", response,
                                 [response |-> parsed.value, valid_json |-> TRUE,
                                  schema_valid |-> [bool |-> TRUE],
                                  attempts |-> g_local.attempt + 1])
                  ELSE /\ NextAttempt(RefineJsonPrompt(g_local.prompt, response,
                                                       schema_check),
                                      response)
                       /\ g_result' =
                             IF g_local.attempt + 1 < g_call.max_attempts THEN <<>>
                             ELSE JsonFailure(response)
    /\ UNCHANGED <<g_call, not_generate_vars>>

\* generate_with_regex(prompt, pattern, max_attempts), lines 131-137
GenerateWithRegex(prompt, pattern, max_attempts) ==
    /\ g_pc = "idle"
    /\ g_call' = [op |-> "generate_with_regex", prompt |-> prompt,
                  pattern |-> pattern, max_attempts |-> max_attempts]
    /\ EnterLoop(RegexPrompt(prompt, pattern), max_attempts)
    /\ UNCHANGED not_generate_vars

\* lines 139-157: the LLM has answered response
RegexAttempt(response) ==
    /\ g_pc = "generate"
    /\ g_call.op = "generate_with_regex"
    /\ \E matched \in {ReMatch(g_call.pattern, response)} :
          IF "raised" \in DOMAIN matched
          THEN LeaveLoop("raised", response, matched)
          ELSE IF matched.value
          THEN LeaveLoop("returned", response,
                         [response |-> response, pattern_matched |-> TRUE,
                          attempts |-> g_local.attempt + 1])
          ELSE /\ NextAttempt(RefineRegexPrompt(g_local.prompt, response,
                                                g_call.pattern),
                              response)
               /\ g_result' =
                     IF g_local.attempt + 1 < g_call.max_attempts THEN <<>>
                     ELSE [response |-> response, pattern_matched |-> FALSE,
                           attempts |-> g_call.max_attempts,
                           error |-> "Unable to generate response matching pattern after maximum attempts"]
    /\ UNCHANGED <<g_call, not_generate_vars>>

\* the caller has taken the outcome; the locals are gone
GenerateReturn ==
    /\ g_pc \in {"returned", "raised"}
    /\ g_pc' = "idle"
    /\ g_call' = NoGenerateCall
    /\ g_local' = NoLocals
    /\ g_llm' = NoExchange
    /\ g_result' = <<>>
    /\ UNCHANGED not_generate_vars

GenerateAsk ==
    \E max_attempts \in 0..MaxAttempts :
        \/ \E constraints \in ConstraintSets :
              GenerateWithConstraints(PromptSay, constraints, max_attempts)
        \/ \E schema \in Schemas : GenerateJson(PromptSay, schema, max_attempts)
        \/ \E pattern \in Patterns : GenerateWithRegex(PromptSay, pattern, max_attempts)

GenerateAnswer ==
    \/ \E response \in ConstraintResponses : ConstraintsAttempt(response)
    \/ \E response \in JsonResponses : JsonAttempt(response)
    \/ \E response \in RegexResponses : RegexAttempt(response)

GenerateNext == GenerateAsk \/ GenerateAnswer \/ GenerateReturn

-----------------------------------------------------------------------------
(* Specifications                                                          *)

\* a retriever that is built and then left alone
HybridUnused == HybridInit /\ keyword_weight = 0

LateInit == WaitInit /\ RerankInit /\ UniversalInit /\ GenerateInit

HybridStart == HybridInit /\ CiteInit /\ ReasonInit /\ IndexInit /\ CrossInit /\ LateInit

CiteStart == HybridUnused /\ CiteInit /\ ReasonInit /\ IndexInit /\ CrossInit /\ LateInit

ReasonStart == HybridUnused /\ CiteInit /\ ReasonInit /\ IndexInit /\ CrossInit /\ LateInit

IndexStart == HybridUnused /\ CiteInit /\ ReasonInit /\ IndexInit /\ CrossInit /\ LateInit

CrossStart == HybridUnused /\ CiteInit /\ ReasonInit /\ IndexInit /\ CrossInit /\ LateInit

UniversalStart ==
    /\ HybridInit /\ CiteInit /\ ReasonInit /\ IndexInit /\ CrossInit
    /\ WaitInit /\ RerankInit /\ UniversalConstructed /\ GenerateInit

SpecHybrid == HybridStart /\ [][HybridNext]_vars

SpecCite == CiteStart /\ [][CiteNext]_vars

SpecCiteFresh == CiteStart /\ [][FreshNext]_vars

SpecReason == ReasonStart /\ [][ReasonNext]_vars

SpecHistory == ReasonStart /\ [][HistoryNext]_vars

SpecInterleave == ReasonStart /\ [][InterleaveNext]_vars

SpecRerank == ReasonStart /\ [][RerankNext]_vars

SpecUniversal == UniversalStart /\ [][UniversalNext]_vars

SpecGenerate == ReasonStart /\ [][GenerateNext]_vars

SpecIndex == IndexStart /\ [][IndexNext]_vars

SpecGrowth == IndexStart /\ [][GrowthNext]_vars

SpecCross == CrossStart /\ [][CrossNext]_vars

SpecFusion == CrossStart /\ [][FusionNext]_vars

-----------------------------------------------------------------------------
(* MultiStepReasoner: properties                                           *)

\* the response holds one of the three words, in any case
Triggers(response) ==
    \E word \in {WordSufficient, WordAdequate, WordComplete} :
        IsSubstring(word, LowerText(response))

\* the llm.generate calls of a session with n step records
CallsForSteps(n) ==
    [i \in 1..(n + 1) |-> IF i = 1 THEN "initial_analysis"
                          ELSE IF i <= n THEN "refinement"
                          ELSE "synthesis"]

\* C9: a reason() call with max_steps >= 1 that returns has recorded one
\* initial_analysis step and then refinement steps only; no step follows a
\* refinement whose response holds 'sufficient', 'adequate' or 'complete' in
\* any case; there are max_steps records unless the last one is such a
\* refinement, whatever the response of the initial analysis holds; the LLM
\* was called once per step record and then once for the synthesis; with
\* max_steps = 3 there are 3 records when no refinement triggers and 2 when
\* the first refinement triggers.
C9_StepsUntilTriggerOrMax ==
    (r_pc = "returned" /\ r_call.max_steps >= 1) =>
        LET steps == r_result.steps
            n == Len(steps)
            max_steps == r_call.max_steps
        IN  /\ n >= 1
            /\ steps[1].type = "initial_analysis"
            /\ \A i \in 2..n : steps[i].type = "refinement"
            /\ n <= max_steps
            /\ \A i \in 2..(n - 1) : ~Triggers(steps[i].response)
            /\ n < max_steps => (n >= 2 /\ Triggers(steps[n].response))
            /\ r_llm = CallsForSteps(n)
            /\ Len(r_llm) = n + 1
            /\ (max_steps = 3 /\ \A i \in 2..n : ~Triggers(steps[i].response))
                   => n = 3
            /\ (max_steps = 3 /\ n >= 2 /\ Triggers(steps[2].response)) => n = 2

\* a session with max_steps = 3 whose initial analysis held a trigger word and
\* went on, and whose first refinement held one in mixed case and was the last
C9_Witness ==
    /\ r_pc = "returned"
    /\ r_call.max_steps = 3
    /\ Len(r_result.steps) = 2
    /\ r_result.steps[1].response = RespAdequate
    /\ r_result.steps[2].response = RespComplete
    /\ r_llm = <<"initial_analysis", "refinement", "synthesis">>

\* the parsed or fallback state a step produced
StepState(step_result) ==
    IF step_result.type = "initial_analysis" THEN step_result.analysis
    ELSE step_result.refinement

\* the step records of the session that runs or has just returned
SessionSteps ==
    IF r_pc = "returned" THEN r_result.steps
    ELSE IF r_pc \in {"refinement", "synthesis"} THEN r_session.steps
    ELSE <<>>

\* C10: the prompt of every refinement step embeds the state the step before
\* it produced: the analysis for the first refinement, the refinement of step
\* i-1 for step i >= 2.
C10_PromptEmbedsPreviousState ==
    \A k \in 2..Len(SessionSteps) :
        SessionSteps[k].prompt.previous_analysis
            = JsonDumps(StepState(SessionSteps[k - 1]))

\* the text is no JSON text: json.loads raises on it
NotJson(response) == "raised" \in DOMAIN JsonLoads(response)

\* a state that keeps the raw text as approach and an empty list under each of
\* the three other keys
IsFallbackState(state, response, fourth) ==
    /\ IsDict(state)
    /\ {pair[1] : pair \in Range(state.dict)}
           = {KeyEntities, KeyRelevantContext, KeyApproach, fourth}
    /\ Len(state.dict) = 4
    /\ \A pair \in Range(state.dict) :
           pair[2] = IF pair[1] = KeyApproach THEN PyStr(response) ELSE PyList(<<>>)

\* the step record the call has just added
LastStep == r_session'.steps[Len(r_session'.steps)]

\* C11: an LLM response that is no JSON text never makes reason() raise: as
\* the answer to the initial analysis or to a refinement it gives a step
\* record whose parsed state holds the raw text as approach and an empty list
\* in every other field; as the answer to the synthesis it gives a session
\* whose final_answer is the raw text, with confidence 0.5 and empty evidence.
C11_NonJsonAbsorbed ==
    [][\A response \in StepResponses \cup SynthesisResponses :
          NotJson(response) =>
              /\ ReasonInitialAnalysis(response) =>
                     /\ r_pc' # "raised"
                     /\ LastStep.response = response
                     /\ IsFallbackState(LastStep.analysis, response, KeyChallenges)
              /\ ReasonRefinementStep(response) =>
                     /\ r_pc' # "raised"
                     /\ LastStep.response = response
                     /\ IsFallbackState(LastStep.refinement, response, KeyInsights)
              /\ ReasonSynthesize(response) =>
                     /\ r_pc' = "returned"
                     /\ r_result'.final_answer = PyStr(response)
                     /\ r_result'.confidence = PyFloat(1, 2)
                     /\ r_result'.evidence = PyList(<<>>)]_vars

\* a session that returned with a non-JSON answer at each of its three calls
C11_Witness ==
    /\ r_pc = "returned"
    /\ Len(r_result.steps) = 2
    /\ NotJson(r_result.steps[1].response)
    /\ NotJson(r_result.steps[2].response)
    /\ r_result.final_answer = PyStr(RespCut)
    /\ r_result.confidence = PyFloat(1, 2)

\* C12: whatever text the LLM returns to the initial analysis, to a refinement
\* or to the synthesis, reason() does not raise, and when it returns, the
\* session carries steps, final_answer, confidence and evidence.
C12_EveryResponseGivesResult ==
    [][\A response \in StepResponses \cup SynthesisResponses :
          (\/ ReasonInitialAnalysis(response)
           \/ ReasonRefinementStep(response)
           \/ ReasonSynthesize(response)) =>
              /\ r_pc' # "raised"
              /\ r_pc' = "returned" =>
                     {"steps", "final_answer", "confidence", "evidence"}
                         \subseteq DOMAIN r_result']_vars

\* a number of Python between 0 and 1
IsUnitNumber(value) ==
    \/ "int" \in DOMAIN value /\ value.int \in {0, 1}
    \/ /\ "float" \in DOMAIN value
       /\ ~RatLess(value.float, Rat(0, 1))
       /\ ~RatLess(Rat(1, 1), value.float)

\* C13: the confidence of the session reason() returned, and of every session
\* in the reasoning history, is a number in [0,1].
C13_ConfidenceInUnitInterval ==
    /\ r_pc = "returned" => IsUnitNumber(r_result.confidence)
    /\ \A i \in 1..Len(reasoning_history) :
           IsUnitNumber(reasoning_history[i].confidence)

\* C14: the history changes in two ways only: a reason() call that returns
\* appends the session it returns, after the sessions already there, and
\* clear_history empties it.  Every other step leaves it as it is: the LLM
\* calls of a later reason(), a reason() that ends with an exception,
\* get_reasoning_history (which returns the list as it stands), and the
\* return to the caller.
C14_HistoryHoldsReturnedSessions ==
    [][/\ (r_call'.op = "reason" /\ r_pc # "returned" /\ r_pc' = "returned") =>
              reasoning_history' = Append(reasoning_history, r_result')
       /\ (r_pc = "idle" /\ r_pc' = "idle") => reasoning_history' = <<>>
       /\ (r_call'.op = "get_reasoning_history" /\ r_pc' = "returned") =>
              /\ reasoning_history' = reasoning_history
              /\ r_result' = reasoning_history
       /\ ~(\/ r_call'.op = "reason" /\ r_pc # "returned" /\ r_pc' = "returned"
            \/ r_pc = "idle" /\ r_pc' = "idle") =>
              reasoning_history' = reasoning_history]_vars

\* a history of two different sessions of which the caller has just taken a
\* copy
C14_Witness ==
    /\ Len(reasoning_history) = 2
    /\ reasoning_history[1].steps # reasoning_history[2].steps
    /\ r_pc = "returned"
    /\ r_call.op = "get_reasoning_history"
    /\ r_result = reasoning_history

\* the reason() call waits at an LLM call
AtLLMCall == r_pc \in {"initial_analysis", "refinement", "synthesis"}

\* C15: an LLM call that raises ends the reason() call with that exception;
\* the failed call is the last LLM call of the session: a call that raised is
\* not made again, and once the exception is on its way the only step left is
\* the caller getting it.
C15_LLMFailureEndsSession ==
    [][/\ (AtLLMCall /\ r_llm' = Append(r_llm, r_pc)) =>
              \/ r_pc' = "raised" /\ "raised" \in DOMAIN r_result'
              \/ r_pc' = "returned"
              \/ /\ AtLLMCall'
                 /\ Len(r_session'.steps) = Len(r_session.steps) + 1
       /\ (r_pc' = "raised" /\ r_result' = [raised |-> "Exception"]) =>
              /\ r_llm' = Append(r_llm, r_pc)
              /\ reasoning_history' = reasoning_history
       /\ r_pc = "raised" =>
              /\ r_pc' = "idle"
              /\ r_llm' = <<>>
              /\ reasoning_history' = reasoning_history]_vars

\* the LLM raised at the second refinement: three calls were made, the caller
\* is about to get the exception
C15_Witness ==
    /\ r_pc = "raised"
    /\ r_result = [raised |-> "Exception"]
    /\ r_llm = <<"initial_analysis", "refinement", "refinement">>
    /\ reasoning_history = <<>>

-----------------------------------------------------------------------------
(* BM25Retriever: properties                                               *)

\* a search has returned a list
SearchReturned == b_pc = "returned" /\ b_call.op = "search"

\* the total score of document doc_id in the search that last returned
DocScore(doc_id) == b_last.score[b_index.documents[doc_id + 1]]

\* ids are the documents of the returned list, in its order: each has a
\* positive score, a later one has a lower score or the same score and a
\* higher id, and a document left out with a positive score has no higher
\* score than any of them
IsRanking(ids) ==
    /\ Len(ids) = Len(b_result)
    /\ \A i \in 1..Len(ids) :
          /\ b_result[i] = [content |-> b_index.documents[ids[i] + 1],
                            score |-> DocScore(ids[i])]
          /\ DocScore(ids[i]) > 0
    /\ \A i, j \in 1..Len(ids) :
          i < j => \/ DocScore(ids[i]) > DocScore(ids[j])
                   \/ DocScore(ids[i]) = DocScore(ids[j]) /\ ids[i] < ids[j]
    /\ \A doc_id \in (0..(Len(b_index.documents) - 1)) \ Range(ids) :
          DocScore(doc_id) > 0 =>
              \A i \in 1..Len(ids) : DocScore(doc_id) <= DocScore(ids[i])

SearchRanked ==
    /\ Len(b_result) <= b_call.top_k
    /\ \E ids \in SeqsUpTo(0..(Len(b_index.documents) - 1), Len(b_index.documents)) :
          IsRanking(ids)

\* C16: a search with top_k >= 0 that returns gives at most top_k documents,
\* each with a positive total score, by falling score and, at equal scores, by
\* rising document id, and no document left out has a higher positive score
\* than a returned one; the search leaves every field of the index as it was,
\* and a search that repeats the query and top_k of the search before it on
\* the same index returns the same list.
C16_SearchRanksAndKeepsIndex ==
    [][(b_pc = "idle" /\ b_call'.op = "search") =>
          /\ b_index' = b_index
          /\ SearchReturned' => SearchRanked'
          /\ (/\ SearchReturned'
              /\ b_last.searched
              /\ b_last.query = b_call'.query
              /\ b_last.top_k = b_call'.top_k) => b_result' = b_last.result]_vars

\* a search with top_k = 1 has returned one of two documents that have the
\* same positive score, and the one left out has the higher id
C16_Witness ==
    /\ SearchReturned
    /\ b_call.top_k = 1
    /\ Len(b_result) = 1
    /\ \E kept, left \in 0..(Len(b_index.documents) - 1) :
          /\ kept < left
          /\ b_index.documents[kept + 1] # b_index.documents[left + 1]
          /\ b_result[1].content = b_index.documents[kept + 1]
          /\ DocScore(left) = DocScore(kept)

\* the query and the document share a token of _tokenize: a whole word of
\* the lowercased text
SharesToken(query, content) ==
    Range(Tokenize(query)) \cap Range(Tokenize(content)) # {}

CatCorpus == <<TextCatSat, TextDogRan, TextCatsDogs>>

\* C17: every document a search returns holds at least one token of the query
\* as a whole lowercased word; and over the corpus 'the cat sat', 'the dog
\* ran', 'cats and dogs' a search for 'cat' with top_k >= 1 returns the first
\* document at the head of the list, does not return the second, and has the
\* third, if at all, behind the first.
C17_ExactTokenMatch ==
    SearchReturned =>
        /\ \A i \in 1..Len(b_result) : SharesToken(b_call.query, b_result[i].content)
        /\ (b_index.documents = CatCorpus /\ b_call.query = QueryCat /\ b_call.top_k >= 1) =>
              /\ Len(b_result) >= 1
              /\ b_result[1].content = TextCatSat
              /\ \A i \in 1..Len(b_result) :
                    /\ b_result[i].content # TextDogRan
                    /\ b_result[i].content = TextCatsDogs => i > 1

\* the search for 'cat' over the three documents has returned one document:
\* 'cats and dogs', which holds 'cat' only as the start of a word, is left out
C17_Witness ==
    /\ SearchReturned
    /\ b_index.documents = CatCorpus
    /\ b_call.query = QueryCat
    /\ b_call.top_k >= 1
    /\ Len(b_result) = 1

\* no token of the query is a term of the index
NoQueryTermIndexed ==
    Range(Tokenize(b_call.query)) \cap DOMAIN b_index.term_freqs = {}

\* C18: a search never ends by raising, whatever add_documents has put into
\* the index and whatever the query is (no division by an avg_doc_length of
\* 0.0 is reached, even when every document has zero tokens); and it returns
\* the empty list when the index has no document, when no token of the query
\* is in the index, and when the query has no token.
C18_SearchNeverRaises ==
    /\ b_pc # "raised"
    /\ (SearchReturned /\ (b_index.documents = <<>> \/ NoQueryTermIndexed)) =>
          b_result = <<>>

\* a search for a query with a token has returned over an index whose
\* documents all have zero tokens, avg_doc_length being 0.0
C18_Witness ==
    /\ SearchReturned
    /\ b_index.documents # <<>>
    /\ b_index.avg_doc_length.num = 0
    /\ Tokenize(b_call.query) # <<>>
    /\ b_result = <<>>

-----------------------------------------------------------------------------
(* CrossModalRetriever: properties                                         *)

CrossSearchReturned == x_pc = "returned" /\ x_call.op = "cross_modal_search"

\* the compatibility table: text takes the content types text and table,
\* table takes the content type table, and image, audio and video take a
\* document that has the modality as its content type or its media type
Compatible(metadata, modality) ==
    LET content_type == LowerText(MetaGet(metadata, "content_type"))
        media_type == LowerText(MetaGet(metadata, "media_type"))
    IN  IF modality = TagText THEN content_type \in {TagText, TagTable}
        ELSE IF modality = TagTable THEN content_type = TagTable
        ELSE content_type = modality \/ media_type = modality

\* C19: for each of the five modalities, every result of cross_modal_search
\* satisfies the compatibility table for the modality asked for, and the
\* results are at most top_k, by falling score.
C19_OnlyCompatibleResults ==
    (CrossSearchReturned /\ x_call.modality \in Modalities) =>
        /\ \A i \in 1..Len(x_result) :
              Compatible(x_result[i].metadata, x_call.modality)
        /\ Len(x_result) <= x_call.top_k
        /\ \A i, j \in 1..Len(x_result) :
              i < j => x_result[i].score >= x_result[j].score

FusionReturned == x_pc = "returned" /\ x_call.op = "multimodal_fusion_search"

\* the weight of a modality: the one given for it, else 1 / number of modalities
StatedWeight(modality) ==
    IF "dict" \in DOMAIN x_call.weights /\ modality \in DOMAIN x_call.weights.dict
    THEN x_call.weights.dict[modality]
    ELSE Rat(1, Len(x_call.queries))

\* the modality searches, by their place in queries, that returned the content
SearchesReturning(content) ==
    {i \in 1..Len(x_call.modality_results) :
        \E k \in 1..Len(x_call.modality_results[i][2]) :
            x_call.modality_results[i][2][k].content = content}

\* the score the i-th modality search gave the content
ScoreIn(i, content) ==
    LET results == x_call.modality_results[i][2]
        first == CHOOSE k \in 1..Len(results) :
                     /\ results[k].content = content
                     /\ \A n \in 1..(k - 1) : results[n].content # content
    IN  results[first].score

\* the sum of score * weight over a set of modality searches
RECURSIVE WeightedSum(_, _)
WeightedSum(searches, content) ==
    IF searches = {} THEN Rat(0, 1)
    ELSE LET i == CHOOSE n \in searches : TRUE
             weight == StatedWeight(x_call.modality_results[i][1])
         IN  RatAdd(Rat(ScoreIn(i, content) * weight.num, weight.den),
                    WeightedSum(searches \ {i}, content))

\* C20: multimodal_fusion_search returns at most top_k entries, no two with
\* the same content, by falling fused_score; the fused_score of an entry is
\* the sum, over the modality searches that returned its content, of the
\* score of the content in that search times weight[modality], a modality
\* without a given weight having the weight 1 / number of modalities; and the
\* modalities of the entry name every modality whose search returned it.
C20_FusedScoreIsWeightedSum ==
    FusionReturned =>
        /\ Len(x_result) <= x_call.top_k
        /\ \A i, j \in 1..Len(x_result) :
              i < j => /\ x_result[i].content # x_result[j].content
                       /\ ~RatLess(x_result[i].fused_score, x_result[j].fused_score)
        /\ \A i \in 1..Len(x_result) :
              /\ RatEqual(x_result[i].fused_score,
                          WeightedSum(SearchesReturning(x_result[i].content),
                                      x_result[i].content))
              /\ Range(x_result[i].modalities) =
                    {x_call.modality_results[n][1] :
                        n \in SearchesReturning(x_result[i].content)}

\* no modality search of the call returned the same content twice
NoRepeatedContent ==
    \A i \in 1..Len(x_call.modality_results) :
        \A k, n \in 1..Len(x_call.modality_results[i][2]) :
            k # n => x_call.modality_results[i][2][k].content
                         # x_call.modality_results[i][2][n].content

\* What holds of the fused score: C20 for the calls whose modality searches
\* each return a content at most once.
FusedScoreWithoutRepeats ==
    (FusionReturned /\ NoRepeatedContent) => C20_FusedScoreIsWeightedSum

\* C28: a search with top_k >= 1 for a query of which a token is a term of
\* the index returns at least one result, whatever the number of documents
\* and the number of them that hold the token.
C28_IndexedTokenGivesResult ==
    (SearchReturned /\ b_call.top_k >= 1 /\ ~NoQueryTermIndexed) =>
        Len(b_result) >= 1

\* the number of times the term is a token of document doc_id
TimesIn(term, doc_id) ==
    Cardinality({i \in 1..Len(TokensOf[b_index.documents[doc_id + 1]]) :
                    TokensOf[b_index.documents[doc_id + 1]][i] = term})

DocIds == 0..(Len(b_index.documents) - 1)

\* the statistics of the index are those of its documents
IndexConsistent ==
    /\ b_index.doc_count = Len(b_index.documents)
    /\ DOMAIN b_index.doc_lengths = DocIds
    /\ \A d \in DocIds :
          b_index.doc_lengths[d] = Len(TokensOf[b_index.documents[d + 1]])
    /\ DOMAIN b_index.term_freqs =
          UNION {Range(TokensOf[b_index.documents[d + 1]]) : d \in DocIds}
    /\ \A t \in DOMAIN b_index.term_freqs :
          /\ DOMAIN b_index.term_freqs[t] = {d \in DocIds : TimesIn(t, d) > 0}
          /\ \A d \in DOMAIN b_index.term_freqs[t] :
                b_index.term_freqs[t][d] = TimesIn(t, d)
    /\ DOMAIN b_index.doc_freqs = DOMAIN b_index.term_freqs
    /\ \A t \in DOMAIN b_index.doc_freqs :
          b_index.doc_freqs[t] = Cardinality(DOMAIN b_index.term_freqs[t])
    /\ b_index.documents # <<>> =>
          b_index.avg_doc_length.num * Len(b_index.documents)
              = b_index.avg_doc_length.den * SumValues(b_index.doc_lengths)

\* C27: every add_documents call appends its documents to documents, so that
\* a document keeps its id, and leaves doc_count = len(documents), one
\* doc_lengths entry per id with the document's token count, term_freqs[t][d]
\* the number of occurrences of t in d and absent when that is 0, doc_freqs[t]
\* the number of entries of term_freqs[t], and, with at least one document,
\* avg_doc_length the mean of all doc_lengths.
C27_IndexMatchesDocuments ==
    [][(b_pc = "idle" /\ b_call'.op = "add_documents") =>
          /\ b_index'.documents = b_index.documents \o b_call'.docs
          /\ IndexConsistent']_vars

\* a second add_documents call has returned: the index holds documents of an
\* earlier call, a document that repeats a word and one of another length
C27_Witness ==
    /\ b_pc = "returned"
    /\ b_call.op = "add_documents"
    /\ b_call.docs # <<>>
    /\ Len(b_call.docs) < Len(b_index.documents)
    /\ \E t \in DOMAIN b_index.term_freqs :
       \E d \in DOMAIN b_index.term_freqs[t] : b_index.term_freqs[t][d] = 2
    /\ \E d, e \in DocIds : b_index.doc_lengths[d] # b_index.doc_lengths[e]

\* every session of the history has its place in it as its session_id
IdsArePositions ==
    \A i \in 1..Len(reasoning_history) : reasoning_history[i].session_id = i - 1

\* C30: with two or more callers whose reason() calls on one reasoner
\* alternate at the LLM calls, a call that completes is appended to the
\* history once, as its last entry, and every session of the history has a
\* session_id equal to its position, so that the ids are pairwise distinct.
C30_InterleavedSessionsKeepIds ==
    [][/\ (r_pc = "synthesis" /\ r_pc' = "returned") =>
             reasoning_history' = Append(reasoning_history, r_result')
       /\ IdsArePositions']_vars

-----------------------------------------------------------------------------
(* Re-rankers: properties                                                  *)

LightReturned == k_pc = "returned" /\ k_call.op = "lightweight" /\ k_call.documents # <<>>

\* the document of a returned entry: the entry without its rerank_score
WithoutRerankScore(entry) == [key \in DOMAIN entry \ {"rerank_score"} |-> entry[key]]

\* how many entries of the sequence docs are the document doc
TimesAmong(doc, docs) == Cardinality({i \in 1..Len(docs) : docs[i] = doc})

ReturnedDocuments == [i \in 1..Len(k_result) |-> WithoutRerankScore(k_result[i])]

\* the score lines 119-130 give a document for the query of the call
ScoreOfDocument(doc) == LightweightScore(StrSplit(LowerText(k_call.query)), doc)

HoldsTerm(doc, term) == IsSubstring(term, LowerText(doc.content))

HoldsEveryTerm(doc) ==
    \A term \in Range(StrSplit(LowerText(k_call.query))) : HoldsTerm(doc, term)

HoldsNoTerm(doc) ==
    \A term \in Range(StrSplit(LowerText(k_call.query))) : ~HoldsTerm(doc, term)

\* C21: for a non-empty documents list LightweightReranker.rerank returns
\* min(top_k, len(documents)) entries, each an input document carrying a
\* rerank_score, in non-increasing rerank_score order; no input document left
\* out scores higher than a returned one; and a document that contains every
\* query term scores at least as high as one that contains none.
C21_LightweightRerankContract ==
    LightReturned =>
        /\ Len(k_result) = Min(k_call.top_k, Len(k_call.documents))
        /\ \A i \in 1..Len(k_result) :
              /\ "rerank_score" \in DOMAIN k_result[i]
              /\ RatEqual(k_result[i].rerank_score, ScoreOfDocument(ReturnedDocuments[i]))
              /\ TimesAmong(ReturnedDocuments[i], ReturnedDocuments)
                     <= TimesAmong(ReturnedDocuments[i], k_call.documents)
        /\ \A i \in 1..(Len(k_result) - 1) :
              ~RatLess(k_result[i].rerank_score, k_result[i + 1].rerank_score)
        /\ \A j \in 1..Len(k_call.documents) :
              TimesAmong(k_call.documents[j], ReturnedDocuments)
                  < TimesAmong(k_call.documents[j], k_call.documents)
              => \A i \in 1..Len(k_result) :
                    ~RatLess(k_result[i].rerank_score, ScoreOfDocument(k_call.documents[j]))
        /\ \A i, j \in 1..Len(k_call.documents) :
              HoldsEveryTerm(k_call.documents[i]) /\ HoldsNoTerm(k_call.documents[j])
              => ~RatLess(ScoreOfDocument(k_call.documents[i]),
                          ScoreOfDocument(k_call.documents[j]))

\* a call with three documents and top_k = 2 whose best document came last,
\* with a document that holds every query term and one that holds none
C21_Witness ==
    /\ LightReturned
    /\ Len(k_call.documents) = 3
    /\ k_call.top_k = 2
    /\ Len(k_result) = 2
    /\ ReturnedDocuments[1] = k_call.documents[3]
    /\ RatLess(k_result[2].rerank_score, k_result[1].rerank_score)
    /\ StrSplit(LowerText(k_call.query)) # <<>>
    /\ HoldsEveryTerm(k_call.documents[3])
    /\ HoldsNoTerm(k_call.documents[1])

\* C22: for both re-ranker variants rerank(query, [], top_k) returns an
\* empty list and never raises, whether the model is loaded, not yet loaded
\* or not loadable.
C22_EmptyDocumentsGiveEmptyList ==
    k_call.op \in {"lightweight", "bge"} /\ k_call.documents = <<>>
    => k_pc = "returned" /\ k_result = <<>>

\* what holds of the BGE re-ranker: once its model is loaded, an empty
\* documents list gives an empty list
BgeEmptyAfterLoad ==
    [][\A query \in RerankQueries, top_k \in RerankTopKs, load \in LoadOutcomes :
          k_model = "loaded" /\ BgeRerank(query, <<>>, top_k, load)
          => k_pc' = "returned" /\ k_result' = <<>>]_vars

-----------------------------------------------------------------------------
(* UniversalRetriever: properties                                          *)

UniversalSearched == u_call.op = "search"

\* the entries of the sequence results are candidates of the hybrid search,
\* with or without a rerank_score, none more often than it is a candidate
AreCandidates(results) ==
    LET returned == [i \in 1..Len(results) |-> WithoutRerankScore(results[i])]
    IN  \A i \in 1..Len(returned) :
            /\ TimesAmong(returned[i], u_call.results) >= 1
            /\ TimesAmong(returned[i], returned) <= TimesAmong(returned[i], u_call.results)

\* what search returns according to its contract
SearchContract ==
    /\ u_pc = "returned"
    /\ u_call.asked = 2 * u_call.top_k
    /\ Len(u_call.results) <= u_call.asked
    /\ Len(u_result) <= u_call.top_k
    /\ AreCandidates(u_result)
    /\ IF u_call.use_reranking /\ u_call.results # <<>>
       THEN /\ u_result = LightweightRerank(u_call.query, u_call.results, u_call.top_k)
            /\ \A i \in 1..(Len(u_result) - 1) :
                  ~RatLess(u_result[i].rerank_score, u_result[i + 1].rerank_score)
       ELSE /\ Len(u_result) = Min(u_call.top_k, Len(u_call.results))
            /\ \A i \in 1..(Len(u_result) - 1) :
                  u_result[i].hybrid_score >= u_result[i + 1].hybrid_score
            /\ \A j \in 1..Len(u_call.results) :
                  TimesAmong(u_call.results[j], u_result)
                      < TimesAmong(u_call.results[j], u_call.results)
                  => \A i \in 1..Len(u_result) :
                        u_result[i].hybrid_score >= u_call.results[j].hybrid_score

\* C23: search runs one hybrid search asking for 2 * top_k candidates and
\* returns at most top_k of them: without re-ranking (or without candidates)
\* the top_k candidates by hybrid_score, with re-ranking the re-ranker's top_k
\* in non-increasing rerank_score order; every returned entry is a candidate.
C23_SearchReturnsTopCandidates == UniversalSearched => SearchContract

\* what holds: the contract for a retriever built with the default
\* LightweightReranker
SearchContractWithLightweight ==
    UniversalSearched /\ ~use_bge_reranker => SearchContract

\* a re-ranked search with the default re-ranker that changed the order of
\* the hybrid candidates
RerankedSearchSeen ==
    /\ UniversalSearched /\ ~use_bge_reranker /\ u_call.use_reranking
    /\ Len(u_call.results) = 2 /\ Len(u_result) = 1
    /\ WithoutRerankScore(u_result[1]) = u_call.results[2]

\* C29: each document of an add_documents call goes to the vector store's
\* add once and to the BM25 index once, so both hold the same documents with
\* the same multiplicity; and when vector_store.add raises, the call leaves
\* the BM25 index as it was.
C29_StoresHoldSameDocuments ==
    [][\A docs \in SeqsUpTo(Contents, 2), first \in AddOutcomes, second \in AddOutcomes :
          UniversalAddDocuments(docs, first, second)
          => /\ \A c \in Contents :
                   CountOf(vs_documents', c) - CountOf(vs_documents, c)
                       = CountOf(bm25'.documents, c) - CountOf(bm25.documents, c)
             /\ u_pc' = "raised" => bm25' = bm25]_vars

\* what holds: a call that returns has given every document to the BM25
\* index once and to the vector store twice
AddStoresTwice ==
    [][\A docs \in SeqsUpTo(Contents, 2), first \in AddOutcomes, second \in AddOutcomes :
          UniversalAddDocuments(docs, first, second) /\ u_pc' = "returned"
          => \A c \in Contents :
                 /\ CountOf(bm25'.documents, c) - CountOf(bm25.documents, c) = CountOf(docs, c)
                 /\ CountOf(vs_documents', c) - CountOf(vs_documents, c)
                        = 2 * CountOf(docs, c)]_vars

-----------------------------------------------------------------------------
(* ConstrainedGenerator: properties                                        *)

\* the attempts of the call so far: one per response the LLM gave
Attempts == Len(g_llm.responses)

\* a response that satisfies every constraint of the dict
SatisfiesAll(response, constraints) ==
    LET has(key) == key \in DOMAIN constraints
    IN  /\ has("max_length") => Len(response) <= constraints.max_length
        /\ has("min_length") => Len(response) >= constraints.min_length
        /\ has("required_keywords") =>
              \A keyword \in Range(constraints.required_keywords) :
                  IsSubstring(keyword, response)
        /\ has("forbidden_keywords") =>
              \A keyword \in Range(constraints.forbidden_keywords) :
                  ~IsSubstring(keyword, response)
        /\ has("custom_constraints") =>
              \A constraint_func \in Range(constraints.custom_constraints) \ {NotCallable} :
                  LET r == CallConstraint(constraint_func, response)
                  IN  "raised" \notin DOMAIN r /\ r.satisfied

Satisfies(k) == SatisfiesAll(g_llm.responses[k], g_call.constraints)

\* the feedback block that lists the violations of attempt k
FeedbackOf(k) ==
    [feedback |-> CheckConstraints(g_llm.responses[k], g_call.constraints).violations]

\* C24: for max_attempts >= 1 generate_with_constraints calls the LLM once
\* per attempt and stops at the first attempt whose response satisfies every
\* constraint, returning it with constraints_satisfied = true and attempts =
\* j; if none does it makes max_attempts calls and returns the last response
\* with constraints_satisfied = false, attempts = max_attempts and a warning;
\* each prompt is the one before it with the feedback block of that attempt's
\* violations appended.
C24_ConstraintsRetryContract ==
    g_call.op = "generate_with_constraints" /\ g_call.max_attempts >= 1 =>
        /\ g_pc \in {"generate", "returned"}
        /\ \A k \in 1..(Len(g_llm.prompts) - 1) :
              /\ FeedbackOf(k).feedback # <<>>
              /\ g_llm.prompts[k + 1] = Append(g_llm.prompts[k], FeedbackOf(k))
        /\ \A k \in 1..(Attempts - 1) : ~Satisfies(k)
        /\ g_pc = "generate" =>
              /\ Len(g_llm.prompts) = Attempts + 1
              /\ Len(g_llm.prompts) <= g_call.max_attempts
              /\ \A k \in 1..Attempts : ~Satisfies(k)
        /\ g_pc = "returned" =>
              /\ Attempts >= 1
              /\ Len(g_llm.prompts) = Attempts
              /\ g_result.response = g_llm.responses[Attempts]
              /\ g_result.constraints_satisfied = Satisfies(Attempts)
              /\ g_result.attempts = Attempts
              /\ ~Satisfies(Attempts) =>
                    /\ Attempts = g_call.max_attempts
                    /\ "warning" \in DOMAIN g_result

\* a call that succeeded at its second attempt, after a first response with
\* two violations
C24_Witness ==
    /\ g_call.op = "generate_with_constraints"
    /\ g_pc = "returned"
    /\ Attempts = 2
    /\ g_result.constraints_satisfied
    /\ g_result.attempts = 2
    /\ Len(FeedbackOf(1).feedback) = 2

\* a call that used up its attempts
ConstraintsExhausted ==
    /\ g_call.op = "generate_with_constraints"
    /\ g_pc = "returned"
    /\ g_call.max_attempts = MaxAttempts
    /\ ~g_result.constraints_satisfied

\* data is an object that has the required fields, with the types the
\* properties name
PassesSchema(data, schema) ==
    /\ "required" \in DOMAIN schema =>
          \A field \in Range(schema.required) :
              IsDict(data) /\ \E i \in 1..Len(data.dict) : data.dict[i][1] = field
    /\ "properties" \in DOMAIN schema =>
          \A property \in Range(schema.properties) :
              (IsDict(data) /\ \E i \in 1..Len(data.dict) : data.dict[i][1] = property[1])
              => TypeAccepted(property[2],
                              TypeName(DictGet(data, property[1], [none |-> TRUE])))

\* the response of attempt k is what the call asks for: JSON that passes the
\* checks of the schema, resp. a text the pattern matches
Succeeds(k) ==
    IF g_call.op = "generate_json"
    THEN LET parsed == JsonLoads(g_llm.responses[k])
         IN  /\ "value" \in DOMAIN parsed
             /\ SchemaGiven(g_call.schema) => PassesSchema(parsed.value, g_call.schema)
    ELSE LET matched == ReMatch(g_call.pattern, g_llm.responses[k])
         IN  "value" \in DOMAIN matched /\ matched.value

\* the flag of the result record
OutcomeFlag ==
    IF g_call.op = "generate_json" THEN g_result.valid_json ELSE g_result.pattern_matched

RetryContract ==
    /\ g_pc \in {"generate", "returned"}
    /\ \A k \in 1..(Attempts - 1) : ~Succeeds(k)
    /\ g_pc = "generate" =>
          /\ Len(g_llm.prompts) = Attempts + 1
          /\ Len(g_llm.prompts) <= g_call.max_attempts
          /\ \A k \in 1..Attempts : ~Succeeds(k)
    /\ g_pc = "returned" =>
          /\ Attempts >= 1
          /\ Len(g_llm.prompts) = Attempts
          /\ OutcomeFlag = Succeeds(Attempts)
          /\ g_result.attempts = Attempts
          /\ ~Succeeds(Attempts) =>
                /\ Attempts = g_call.max_attempts
                /\ "error" \in DOMAIN g_result

\* C25: for max_attempts >= 1 generate_json (resp. generate_with_regex)
\* calls the LLM once per attempt and returns at the first attempt whose
\* response parses as JSON and passes the schema checks (resp. matches the
\* pattern) with the flag true and attempts = j; if none does it makes
\* max_attempts calls and returns the flag false, attempts = max_attempts and
\* an error message.
C25_JsonAndRegexRetryContract ==
    g_call.op \in {"generate_json", "generate_with_regex"} /\ g_call.max_attempts >= 1
    => RetryContract

\* every response of the call that parses is a JSON object
OnlyObjects ==
    \A k \in 1..Attempts :
        LET parsed == JsonLoads(g_llm.responses[k])
        IN  "value" \in DOMAIN parsed => IsDict(parsed.value)

\* what holds: the contract for a pattern that compiles, and for JSON
\* responses that are objects or do not parse
RetryContractOnObjects ==
    /\ \/ g_call.op = "generate_json" /\ OnlyObjects
       \/ g_call.op = "generate_with_regex" /\ g_call.pattern # PatternOpen
    /\ g_call.max_attempts >= 1
    => RetryContract

\* invalid JSON at attempt 1, JSON that passes the schema at attempt 2
SecondAttemptSeen ==
    /\ g_call.op = "generate_json" /\ SchemaGiven(g_call.schema)
    /\ g_pc = "returned" /\ Attempts = 2
    /\ "raised" \in DOMAIN JsonLoads(g_llm.responses[1])
    /\ g_result.valid_json /\ g_result.attempts = 2

\* C26: for every max_attempts >= 0, schema, constraint set, pattern and
\* sequence of responses the three operations return a result record whose
\* constraints_satisfied / valid_json / pattern_matched field reports the
\* outcome; they never raise.
C26_GenerationNeverRaises ==
    g_call.op # "none" /\ g_pc # "generate" =>
        /\ g_pc = "returned"
        /\ CASE g_call.op = "generate_with_constraints" ->
                   "constraints_satisfied" \in DOMAIN g_result
             [] g_call.op = "generate_json" -> "valid_json" \in DOMAIN g_result
             [] g_call.op = "generate_with_regex" -> "pattern_matched" \in DOMAIN g_result

====
